---------------------------- MODULE Spec2Model ----------------------------
(***************************************************************************)
(* Model of the SDXL prompt creator: the structured prompt assembler       *)
(* (models/prompt_schema.py) and the prompt composition pipeline           *)
(* (composer/composer.py) driving an injected text-generation port.        *)
(*                                                                         *)
(* Python strings are TLA+ strings; f-strings and str.join are string      *)
(* concatenation (\o).  Optional[str] is a sequence of length 0 (None) or  *)
(* 1 (the string).  list[str] is a sequence of strings.                    *)
(***************************************************************************)
EXTENDS Integers, Sequences, FiniteSets, TLC

VARIABLES
    sample_prompt,       \* a CinematicPrompt object held by a caller
    returns,             \* values returned by generate_prompt_string on it
    character_traits_kb, \* PromptComposer.character_traits_kb
    pc,                  \* position of compose_prompt: idle / run / done
    character_name,      \* argument of the compose_prompt run
    known_traits,        \* local known_traits (Optional[dict])
    locals,              \* results assigned so far: node name -> string
    calls,               \* generate_text calls issued by the run, in order
    outstanding,         \* calls issued and not yet returned
    replies,             \* what the port answered, in order of return
    faults,              \* number of non-text replies given in this run
    prompt_data,         \* the CinematicPrompt compose_prompt returned
    traits_source,       \* what traits_file_path led to at construction
    raised,              \* the exception that left compose_prompt, if any
    held,                \* returned prompts a caller keeps (with their lists)
    runs,                \* concurrent compose_prompt runs: id -> frame
    client_log,          \* lmstudio_client.py __main__: calls made, outcomes
    app_pc,              \* position of generate_cinematic_prompt
    app_args,            \* its arguments
    app_result,          \* the four values it returned
    FLORENCE_MODEL,      \* florence2_captioner.py global: the loaded model
    FLORENCE_PROCESSOR,  \* florence2_captioner.py global: its processor
    caption_log          \* calls made to the captioner module, in order

vars == <<sample_prompt, returns, character_traits_kb, pc, character_name,
          known_traits, locals, calls, outstanding, replies, faults,
          prompt_data, traits_source, raised, held, runs, client_log,
          app_pc, app_args, app_result, FLORENCE_MODEL, FLORENCE_PROCESSOR,
          caption_log>>

assembleVars == <<sample_prompt, returns>>
composeVars  == <<character_traits_kb, pc, character_name, known_traits,
                  locals, calls, outstanding, replies, faults, prompt_data>>
callerVars   == <<held, runs, client_log>>
appVars      == <<app_pc, app_args, app_result>>
captionVars  == <<FLORENCE_MODEL, FLORENCE_PROCESSOR, caption_log>>
hostVars     == <<traits_source, raised, callerVars, appVars, captionVars>>

---------------------------------------------------------------------------
(* Bounds of the model *)

\* calls of generate_prompt_string made on one sample prompt
MaxCalls == 2
\* optional fields of a sample prompt that are present but empty ("")
MaxEmpty == 1
\* returned prompts a caller keeps at a time
MaxHeld == 2
\* elements a caller appends to the negative list of a prompt it keeps
MaxAppends == 1
\* answers of the LM Studio server, per request of the application, that
\* are not a completion with text
MaxOdd == 1
\* replies of the port, per compose run, that are not ordinary text
MaxFaults == 3
\* calls made to the captioner module
MaxCaptionCalls == 3

---------------------------------------------------------------------------
(* Python values *)

None == <<>>
Some(s) == <<s>>

\* mutant: only None counts as absent (`if x is not None:`)
Truthy_present(o) == o # None

\* truth value of an Optional[str] in `if x:` : None and "" are falsy
Truthy(o) == o # None /\ o[1] # ""

\* truth value of a list in `if xs:`
TruthyList(xs) == Len(xs) > 0

\* sep.join(parts)
RECURSIVE Join(_, _)
Join(parts, sep) ==
    IF Len(parts) = 0 THEN ""
    ELSE IF Len(parts) = 1 THEN parts[1]
    ELSE parts[1] \o sep \o Join(Tail(parts), sep)

\* p in s
Contains(s, p) ==
    \E i \in 1..(Len(s) - Len(p) + 1) : SubSeq(s, i, i + Len(p) - 1) = p

\* s.startswith(p), s.endswith(p)
StartsWith(s, p) == Len(p) <= Len(s) /\ SubSeq(s, 1, Len(p)) = p
EndsWith(s, p) ==
    Len(p) <= Len(s) /\ SubSeq(s, Len(s) - Len(p) + 1, Len(s)) = p

\* number of (possibly overlapping) occurrences of p in s
Occurrences(s, p) ==
    Cardinality({i \in 1..(Len(s) - Len(p) + 1) :
                    SubSeq(s, i, i + Len(p) - 1) = p})

\* the characters str.strip() removes
Whitespace == {" ", "\t", "\n", "\r"}

\* s.lstrip(), s.rstrip(), s.strip()
RECURSIVE lstrip(_)
lstrip(s) ==
    IF Len(s) > 0 /\ SubSeq(s, 1, 1) \in Whitespace
    THEN lstrip(SubSeq(s, 2, Len(s))) ELSE s

RECURSIVE rstrip(_)
rstrip(s) ==
    IF Len(s) > 0 /\ SubSeq(s, Len(s), Len(s)) \in Whitespace
    THEN rstrip(SubSeq(s, 1, Len(s) - 1)) ELSE s

strip(s) == rstrip(lstrip(s))

\* the classes an exception is an instance of, by the class that is raised
ExceptionBases ==
    [ PermissionError |-> {"PermissionError", "OSError", "Exception"},
      JSONDecodeError |-> {"JSONDecodeError", "ValueError", "Exception"},
      RequestsJSONDecodeError |->
          {"RequestsJSONDecodeError", "RequestException", "JSONDecodeError",
           "ValueError", "OSError", "Exception"},
      ConnectionError |-> {"ConnectionError", "RequestException", "OSError", "Exception"},
      Timeout |-> {"Timeout", "RequestException", "OSError", "Exception"},
      HTTPError |-> {"HTTPError", "RequestException", "OSError", "Exception"},
      KeyError |-> {"KeyError", "LookupError", "Exception"},
      AttributeError |-> {"AttributeError", "Exception"},
      TypeError |-> {"TypeError", "Exception"},
      ValueError |-> {"ValueError", "Exception"},
      RuntimeError |-> {"RuntimeError", "Exception"},
      ImportError |-> {"ImportError", "Exception"},
      OSError |-> {"OSError", "Exception"} ]

\* some `except` clause of a try statement matches the exception
Caught(handlers, exc) == handlers \cap ExceptionBases[exc] # {}

---------------------------------------------------------------------------
(* models/prompt_schema.py : CinematicPrompt.generate_prompt_string *)

QUALITY_SUFFIX == "ultra-detailed, 8k, photorealistic, cinematic composition"

\* parts.append(x) if cond
AppendIf(parts, cond, x) == IF cond THEN Append(parts, x) ELSE parts

CharacterClause(c) ==
    LET p0 == <<c.description>>
        p1 == AppendIf(p0, Truthy(c.outfit), "wearing " \o c.outfit[1])
        p2 == AppendIf(p1, Truthy(c.expression),
                       "with a " \o c.expression[1] \o " expression")
    IN  Join(p2, ", ")

EnvironmentClause(e) ==
    LET p0 == <<"in a " \o e.setting>>
        p1 == AppendIf(p0, Truthy(e.mood), "creating a " \o e.mood[1] \o " mood")
        p2 == AppendIf(p1, Truthy(e.time_of_day), "during " \o e.time_of_day[1])
    IN  Join(p2, " ")

CameraClause(c) ==
    LET p0 == <<c.shot_type>>
        p1 == AppendIf(p0, Truthy(c.angle), c.angle[1])
        p2 == AppendIf(p1, Truthy(c.lens), "using a " \o c.lens[1] \o " lens")
        p3 == AppendIf(p2, Truthy(c.composition_notes),
                       "with " \o c.composition_notes[1])
    IN  "Camera: " \o Join(p3, ", ") \o "."

\* str(x) of an Optional[str] inside an f-string
PyStr(o) == IF o = None THEN "None" ELSE o[1]

\* mutant: the temperature clause is appended without the `if`
LightingClause_unguarded(l) ==
    "Lighting: " \o l.description \o ", with " \o PyStr(l.temperature) \o " tones."

LightingClause(l) ==
    LET p0 == <<l.description>>
        p1 == AppendIf(p0, Truthy(l.temperature),
                       "with " \o l.temperature[1] \o " tones")
    IN  "Lighting: " \o Join(p1, ", ") \o "."

\* mutant: the closing period of the style clause is forgotten
StyleClause_unterminated(s) ==
    LET p0 == <<"Style: " \o s.genre>>
        p1 == AppendIf(p0, Truthy(s.influences),
                       "influenced by " \o s.influences[1])
        p2 == AppendIf(p1, Truthy(s.additional_details),
                       s.additional_details[1])
    IN  Join(p2, ". ")

StyleClause(s) ==
    LET p0 == <<"Style: " \o s.genre>>
        p1 == AppendIf(p0, Truthy(s.influences),
                       "influenced by " \o s.influences[1])
        p2 == AppendIf(p1, Truthy(s.additional_details),
                       s.additional_details[1])
    IN  Join(p2, ". ") \o "."

\* mutant: the suffix is appended without the `if`
NegativeSuffix_unguarded(p) ==
    " --neg " \o Join(p.negative_prompt_elements, ", ")

NegativeSuffix(p) ==
    IF TruthyList(p.negative_prompt_elements)
    THEN " --neg " \o Join(p.negative_prompt_elements, ", ")
    ELSE ""

\* mutant: the lighting clause is appended before the camera clause
generate_prompt_string_reordered(p) ==
    LET parts == << CharacterClause(p.character),
                    EnvironmentClause(p.environment),
                    "Focusing on " \o p.subject_focus \o ".",
                    "The overall atmosphere is " \o p.ambiance_atmosphere \o ".",
                    LightingClause(p.lighting),
                    CameraClause(p.camera),
                    StyleClause(p.style),
                    QUALITY_SUFFIX >>
    IN  Join(parts, " ") \o NegativeSuffix(p)

\* mutant: the new string is appended to the one stored by the last call
generate_prompt_string_accumulating(p) ==
    LET parts == << CharacterClause(p.character),
                    EnvironmentClause(p.environment),
                    "Focusing on " \o p.subject_focus \o ".",
                    "The overall atmosphere is " \o p.ambiance_atmosphere \o ".",
                    CameraClause(p.camera),
                    LightingClause(p.lighting),
                    StyleClause(p.style),
                    QUALITY_SUFFIX >>
        stored == IF Truthy(p.final_prompt_string)
                  THEN p.final_prompt_string[1] \o " " ELSE ""
    IN  stored \o Join(parts, " ") \o NegativeSuffix(p)

\* the string generate_prompt_string returns and stores
generate_prompt_string(p) ==
    LET parts == << CharacterClause(p.character),
                    EnvironmentClause(p.environment),
                    "Focusing on " \o p.subject_focus \o ".",
                    "The overall atmosphere is " \o p.ambiance_atmosphere \o ".",
                    CameraClause(p.camera),
                    LightingClause(p.lighting),
                    StyleClause(p.style),
                    QUALITY_SUFFIX >>
    IN  Join(parts, " ") \o NegativeSuffix(p)

\* CinematicPrompt(...) : the constructor leaves final_prompt_string None
CinematicPrompt(character, environment, camera, lighting, style, subject_focus, ambiance_atmosphere, negative_prompt_elements) ==
    [ character |-> character, environment |-> environment,
      camera |-> camera, lighting |-> lighting, style |-> style,
      subject_focus |-> subject_focus,
      ambiance_atmosphere |-> ambiance_atmosphere,
      negative_prompt_elements |-> negative_prompt_elements,
      final_prompt_string |-> None ]

---------------------------------------------------------------------------
(* Sample prompts: the inputs generate_prompt_string is exercised on *)

\* required field values of Scenario A of the specification
ScenarioARequired ==
    [ description |-> "A rugged space pirate",
      setting |-> "starship bridge",
      shot_type |-> "medium close-up",
      lighting |-> "blue rim light",
      genre |-> "sci-fi realism",
      subject_focus |-> "the pirate's eye",
      ambiance_atmosphere |-> "high-tech grit" ]

\* required field values of the minimal example of prompt_schema.py
MinimalRequired ==
    [ description |-> "A young witch",
      setting |-> "enchanted forest",
      shot_type |-> "full shot",
      lighting |-> "moonlight",
      genre |-> "fantasy art",
      subject_focus |-> "the witch casting a spell",
      ambiance_atmosphere |-> "mystical and magical" ]

\* the required values and the negative_prompt_elements of a sample
SampleCases ==
    { [required |-> ScenarioARequired, negs |-> <<"cartoonish", "blurry">>],
      [required |-> MinimalRequired, negs |-> <<>>],
      [required |-> MinimalRequired,
       negs |-> <<"cartoonish", "blurry", "low resolution">>] }

\* optional field values of the first example of prompt_schema.py
OptionalText ==
    [ outfit |-> "worn leather jacket, utility belt with gadgets",
      expression |-> "determined smirk",
      mood |-> "tense and expectant",
      time_of_day |-> "artificial night",
      angle |-> "slight low angle",
      lens |-> "35mm anamorphic",
      composition_notes |-> "character slightly off-center, bokeh background",
      temperature |-> "cool with warm highlights",
      influences |-> "Blade Runner, Mass Effect",
      additional_details |-> "subtle film grain, high contrast" ]

OptionalFields == DOMAIN OptionalText

\* how each optional field of a sample is given: absent, "" or its text
OptionalChoices ==
    { ch \in [OptionalFields -> {"none", "empty", "text"}] :
        Cardinality({f \in OptionalFields : ch[f] = "empty"}) <= MaxEmpty }

OptionalValue(ch, f) ==
    CASE ch[f] = "none"  -> None
      [] ch[f] = "empty" -> Some("")
      [] ch[f] = "text"  -> Some(OptionalText[f])

\* the prompt a caller constructs from a profile, a choice and a list
SamplePrompt(r, ch, negs) ==
    CinematicPrompt(
        [ description |-> r.description,
          outfit |-> OptionalValue(ch, "outfit"),
          expression |-> OptionalValue(ch, "expression") ],
        [ setting |-> r.setting,
          mood |-> OptionalValue(ch, "mood"),
          time_of_day |-> OptionalValue(ch, "time_of_day") ],
        [ shot_type |-> r.shot_type,
          angle |-> OptionalValue(ch, "angle"),
          lens |-> OptionalValue(ch, "lens"),
          composition_notes |-> OptionalValue(ch, "composition_notes") ],
        [ description |-> r.lighting,
          temperature |-> OptionalValue(ch, "temperature") ],
        [ genre |-> r.genre,
          influences |-> OptionalValue(ch, "influences"),
          additional_details |-> OptionalValue(ch, "additional_details") ],
        r.subject_focus, r.ambiance_atmosphere, negs)

\* mutant: the negative elements are cleared once they are in the string
Assembled_consuming(prompt) ==
    [prompt EXCEPT !.final_prompt_string = Some(generate_prompt_string(prompt)),
                   !.negative_prompt_elements = <<>>]

\* the prompt after prompt.generate_prompt_string() stored its result
Assembled(prompt) ==
    [prompt EXCEPT !.final_prompt_string = Some(generate_prompt_string(prompt))]

\* prompt_data.generate_prompt_string(): stores the string and returns it
GeneratePromptString ==
    /\ Len(returns) < MaxCalls
    /\ sample_prompt' = Assembled(sample_prompt)
    /\ returns' = Append(returns, generate_prompt_string(sample_prompt))
    /\ UNCHANGED <<composeVars, hostVars>>


---------------------------------------------------------------------------
(* composer/composer.py : the knowledge base *)

\* content of the traits file when it holds a JSON object of records
\* (a dict keeps the order of the file: a sequence of key/record pairs)
TraitsFile ==
    << [ name |-> "Marge Simpson",
         traits |-> [ description_keywords |-> <<"tall blue beehive hair", "yellow skin">>,
                      outfit_keywords |-> <<"green strapless dress", "red pearl necklace">>,
                      expression_keywords |-> <<"patient">>,
                      negative_prompt_keywords |-> <<"realistic skin", "3d render">> ] ],
       [ name |-> "Gandalf the Grey",
         traits |-> [ description_keywords |-> <<"long grey beard">>,
                      environment_keywords |-> <<"Middle-earth">>,
                      genre_keywords |-> <<"high fantasy">> ] ] >>

\* what the traits file path leads to
TraitsSources ==
    { [kind |-> "missing"], [kind |-> "json", value |-> TraitsFile] }

\* sources that give no knowledge base: no file, a file that cannot be
\* opened, a file whose text is cut off in the second record
BrokenSources ==
    { [kind |-> "missing"],
      [kind |-> "unreadable"],
      [kind |-> "malformed", value |-> <<TraitsFile[1]>>] }

\* the exception raised inside the try block of _load_character_traits
LoadRaises(source) ==
    CASE source.kind = "unreadable" -> Some("PermissionError")
      [] source.kind = "malformed"  -> Some("JSONDecodeError")
      [] OTHER                      -> None

\* mutant: only the JSON handler is there
LoadHandlers_json == {"JSONDecodeError"}

\* the except clauses of _load_character_traits
LoadHandlers == {"JSONDecodeError", "Exception"}

\* the exception leaves _load_character_traits and __init__
LoadEscapes(source) ==
    LoadRaises(source) # None /\ ~Caught(LoadHandlers, LoadRaises(source)[1])

\* character_traits_kb after __init__ and _load_character_traits
_load_character_traits(source) ==
    IF source.kind = "json" THEN source.value ELSE <<>>

\* files whose text is JSON but not an object: json.load returns a list,
\* a str, an int or None, and line 29 keeps it as character_traits_kb
NonObjectSources ==
    { [kind |-> "value", type |-> "list",     text |-> "[]"],
      [kind |-> "value", type |-> "list",     text |-> "[\"Marge Simpson\"]"],
      [kind |-> "value", type |-> "str",      text |-> "\"traits\""],
      [kind |-> "value", type |-> "int",      text |-> "5"],
      [kind |-> "value", type |-> "NoneType", text |-> "null"] }

\* files whose text is a JSON object: the traits file and {}
ObjectSources ==
    { [kind |-> "json", value |-> TraitsFile], [kind |-> "json", value |-> <<>>] }

\* type(self.character_traits_kb) after construction over the source: the
\* variable character_traits_kb holds the items of a dict, and is empty
\* for a value of another type
KbType(source) == IF source.kind = "value" THEN source.type ELSE "dict"

\* self.character_traits_kb.items() (line 42): only a dict has the method
LookupRaises(source) ==
    IF KbType(source) = "dict" THEN None ELSE Some("AttributeError")

UpperCase == "ABCDEFGHIJKLMNOPQRSTUVWXYZ"
LowerCase == "abcdefghijklmnopqrstuvwxyz"

LowerChar(c) ==
    LET hit == {i \in 1..Len(UpperCase) : SubSeq(UpperCase, i, i) = c}
    IN  IF hit = {} THEN c
        ELSE LET i == CHOOSE j \in hit : TRUE IN SubSeq(LowerCase, i, i)

\* str.lower()
RECURSIVE lower(_)
lower(s) ==
    IF Len(s) = 0 THEN ""
    ELSE LowerChar(SubSeq(s, 1, 1)) \o lower(SubSeq(s, 2, Len(s)))

\* mutant: a key that contains the lowered name matches
_get_known_traits_substring(kb, name) ==
    LET hits == {i \in 1..Len(kb) : Contains(lower(kb[i].name), lower(name))}
    IN  IF hits = {} THEN None
        ELSE Some(kb[CHOOSE i \in hits : \A j \in hits : i <= j].traits)

\* mutant: the name is trimmed before it is compared
_get_known_traits_trimmed(kb, name) ==
    LET hits == {i \in 1..Len(kb) : lower(kb[i].name) = lower(strip(name))}
    IN  IF hits = {} THEN None
        ELSE Some(kb[CHOOSE i \in hits : \A j \in hits : i <= j].traits)

\* _get_known_traits: the record of the first key equal to the name, both
\* lowered; None when there is none
_get_known_traits(kb, name) ==
    LET hits == {i \in 1..Len(kb) : lower(kb[i].name) = lower(name)}
    IN  IF hits = {} THEN None
        ELSE Some(kb[CHOOSE i \in hits : \A j \in hits : i <= j].traits)

\* `known_traits and key in known_traits` (None and {} are falsy)
HasKeywords(kt, key) ==
    kt # None /\ DOMAIN kt[1] # {} /\ key \in DOMAIN kt[1]

---------------------------------------------------------------------------
(* composer/composer.py : the fifteen _generate_* methods, each the        *)
(* (system_prompt, user_prompt) pair it hands to lm_client.generate_text   *)

Request(system_prompt, user_prompt) ==
    [system |-> system_prompt, user |-> user_prompt]

\* user_prompt_parts with the keyword sentence appended when the record
\* holds the key, joined by " "
WithHint(base, kt, key, lead) ==
    Join(AppendIf(<<base>>, HasKeywords(kt, key),
                  lead \o Join(IF HasKeywords(kt, key) THEN kt[1][key] ELSE <<>>, ", ") \o "."),
         " ")

_generate_character_visuals(name, kt) ==
    Request("You are an AI assistant helping describe character visuals for an image generation prompt. Focus on appearance, age, and key features. Elaborate on any provided known traits.",
            WithHint("Describe the character '" \o name \o "'.", kt,
                     "description_keywords", "Incorporate these known iconic traits: "))

_generate_outfit_details(name, character_visuals, kt) ==
    Request("You are an AI assistant helping describe outfit details for a character based on their visuals for an image generation prompt. Elaborate on any provided known traits.",
            WithHint("Given the character '" \o name \o "' who looks like: '" \o character_visuals \o "', describe their outfit.", kt,
                     "outfit_keywords", "Known iconic outfit elements include: "))

_generate_character_expression(name, character_visuals, kt) ==
    Request("You are an AI assistant helping describe the facial expression or emotion of a character for an image generation prompt. Elaborate on any provided known traits.",
            WithHint("What is the expression of '" \o name \o "' who looks like: '" \o character_visuals \o "'?", kt,
                     "expression_keywords", "Known expressions or typical demeanor includes: "))

_generate_environment_setting(name, kt) ==
    Request("You are an AI assistant creating a compelling environment/setting for a character in an image generation prompt.",
            WithHint("Describe a suitable setting for the character '" \o name \o "'.", kt,
                     "environment_keywords", "Consider their typical environments such as: "))

\* mutant: the user prompt is a plain string, not an f-string
_generate_environment_mood_plain(setting_description) ==
    Request("You are an AI assistant defining the mood of an environment based on its description.",
            "For the setting '{setting_description}', what is the emotional atmosphere or tone?")

_generate_environment_mood(setting_description) ==
    Request("You are an AI assistant defining the mood of an environment based on its description.",
            "For the setting '" \o setting_description \o "', what is the emotional atmosphere or tone?")

_generate_time_of_day(setting_description) ==
    Request("You are an AI assistant determining an appropriate time of day for a described environment.",
            "For the setting '" \o setting_description \o "', what is the time of day?")

_generate_camera_shot_type(name, setting_description) ==
    Request("You are an AI assistant selecting a cinematic camera shot type (e.g., close-up, medium shot, full shot) for a character in a scene.",
            "For '" \o name \o "' in '" \o setting_description \o "', what is a good camera shot type?")

_generate_camera_angle(name, shot_type) ==
    Request("You are an AI assistant selecting a camera angle (e.g., eye-level, low angle) for a character.",
            "For '" \o name \o "' with a '" \o shot_type \o "', suggest a camera angle.")

_generate_camera_lens(shot_type, style_genre) ==
    Request("You are an AI assistant suggesting a camera lens (e.g., 35mm, wide-angle) appropriate for a shot type and artistic style.",
            "For a '" \o shot_type \o "' in a '" \o style_genre \o "' style, what lens would be suitable?")

_generate_lighting_description(name, setting_description, time_of_day) ==
    Request("You are an AI assistant describing the lighting of a scene.",
            "Describe the lighting for '" \o name \o "' in '" \o setting_description \o "' during '" \o time_of_day \o "'.")

_generate_lighting_temperature(lighting_description) ==
    Request("You are an AI assistant describing the lighting temperature.",
            "For lighting described as '" \o lighting_description \o "', what is its color temperature (e.g. cool, warm)?")

\* mutant: the genre call was left without its keyword sentence
_generate_artistic_genre_plain(name, kt) ==
    Request("You are an AI assistant determining an artistic genre (e.g., photorealistic, fantasy art) for a character.",
            "What artistic genre best fits '" \o name \o "'?")

_generate_artistic_genre(name, kt) ==
    Request("You are an AI assistant determining an artistic genre (e.g., photorealistic, fantasy art) for a character.",
            WithHint("What artistic genre best fits '" \o name \o "'?", kt,
                     "genre_keywords", "Consider their typical genre: "))

_generate_artistic_influences(genre) ==
    Request("You are an AI assistant suggesting artistic influences (artists, movies) for a given genre.",
            "For the genre '" \o genre \o "', suggest some artistic influences.")

_generate_subject_focus(character_description, setting) ==
    Request("You are an AI assistant defining the main subject or focus of an image, given a character and setting.",
            "The character is '" \o character_description \o "' in '" \o setting \o "'. What should be the main subject focus of the image?")

_generate_ambiance_atmosphere(character_description, setting, mood) ==
    Request("You are an AI assistant describing the overall ambiance and atmosphere to convey in an image.",
            "Given the character '" \o character_description \o "', the setting '" \o setting \o "', and mood '" \o mood \o "', describe the overall ambiance and atmosphere.")


---------------------------------------------------------------------------
(* composer/composer.py : compose_prompt *)

\* mutant: the time of day is asked for before the mood
Order_swapped ==
    << "char_visuals", "char_outfit", "char_expression",
       "env_setting", "env_time_of_day", "env_mood",
       "art_genre", "art_influences",
       "cam_shot_type", "cam_angle", "cam_lens",
       "light_desc", "light_temp",
       "subject", "ambiance" >>

\* the locals the fifteen results are assigned to, in statement order
Order ==
    << "char_visuals", "char_outfit", "char_expression",
       "env_setting", "env_mood", "env_time_of_day",
       "art_genre", "art_influences",
       "cam_shot_type", "cam_angle", "cam_lens",
       "light_desc", "light_temp",
       "subject", "ambiance" >>

Nodes == {Order[i] : i \in 1..Len(Order)}

\* the request of the statement that assigns `node`, from the locals
\* assigned before it
CallFor(node, name, kt, loc) ==
    CASE node = "char_visuals"    -> _generate_character_visuals(name, kt)
      [] node = "char_outfit"     -> _generate_outfit_details(name, loc["char_visuals"], kt)
      [] node = "char_expression" -> _generate_character_expression(name, loc["char_visuals"], kt)
      [] node = "env_setting"     -> _generate_environment_setting(name, kt)
      [] node = "env_mood"        -> _generate_environment_mood(loc["env_setting"])
      [] node = "env_time_of_day" -> _generate_time_of_day(loc["env_setting"])
      [] node = "art_genre"       -> _generate_artistic_genre(name, kt)
      [] node = "art_influences"  -> _generate_artistic_influences(loc["art_genre"])
      [] node = "cam_shot_type"   -> _generate_camera_shot_type(name, loc["env_setting"])
      [] node = "cam_angle"       -> _generate_camera_angle(name, loc["cam_shot_type"])
      [] node = "cam_lens"        -> _generate_camera_lens(loc["cam_shot_type"], loc["art_genre"])
      [] node = "light_desc"      -> _generate_lighting_description(name, loc["env_setting"], loc["env_time_of_day"])
      [] node = "light_temp"      -> _generate_lighting_temperature(loc["light_desc"])
      [] node = "subject"         -> _generate_subject_focus(loc["char_visuals"], loc["env_setting"])
      [] node = "ambiance"        -> _generate_ambiance_atmosphere(loc["char_visuals"], loc["env_setting"], loc["env_mood"])

\* mutant: each keyword is inserted at the front of the list
NegativePromptsList_reversed(kt) ==
    IF HasKeywords(kt, "negative_prompt_keywords")
    THEN LET ks == kt[1]["negative_prompt_keywords"]
         IN  [i \in 1..Len(ks) |-> ks[Len(ks) + 1 - i]]
    ELSE <<>>

\* negative_prompts_list: [] extended by the record's keywords
NegativePromptsList(kt) ==
    IF HasKeywords(kt, "negative_prompt_keywords")
    THEN kt[1]["negative_prompt_keywords"]
    ELSE <<>>

\* mutant: a failed setting is replaced by a placeholder
BuildPrompt_placeholder(loc, kt) ==
    CinematicPrompt(
        [ description |-> loc["char_visuals"],
          outfit |-> Some(loc["char_outfit"]),
          expression |-> Some(loc["char_expression"]) ],
        [ setting |-> IF StartsWith(loc["env_setting"], "Error:")
                      THEN "unknown location" ELSE loc["env_setting"],
          mood |-> Some(loc["env_mood"]),
          time_of_day |-> Some(loc["env_time_of_day"]) ],
        [ shot_type |-> loc["cam_shot_type"],
          angle |-> Some(loc["cam_angle"]),
          lens |-> Some(loc["cam_lens"]),
          composition_notes |-> None ],
        [ description |-> loc["light_desc"],
          temperature |-> Some(loc["light_temp"]) ],
        [ genre |-> loc["art_genre"],
          influences |-> Some(loc["art_influences"]),
          additional_details |-> None ],
        loc["subject"], loc["ambiance"], NegativePromptsList(kt))

\* mutant: outfit and expression are passed to each other's field
BuildPrompt_swapped(loc, kt) ==
    CinematicPrompt(
        [ description |-> loc["char_visuals"],
          outfit |-> Some(loc["char_expression"]),
          expression |-> Some(loc["char_outfit"]) ],
        [ setting |-> loc["env_setting"],
          mood |-> Some(loc["env_mood"]),
          time_of_day |-> Some(loc["env_time_of_day"]) ],
        [ shot_type |-> loc["cam_shot_type"],
          angle |-> Some(loc["cam_angle"]),
          lens |-> Some(loc["cam_lens"]),
          composition_notes |-> None ],
        [ description |-> loc["light_desc"],
          temperature |-> Some(loc["light_temp"]) ],
        [ genre |-> loc["art_genre"],
          influences |-> Some(loc["art_influences"]),
          additional_details |-> None ],
        loc["subject"], loc["ambiance"], NegativePromptsList(kt))

\* prompt_data = CinematicPrompt(...) built from the fifteen locals
BuildPrompt(loc, kt) ==
    CinematicPrompt(
        [ description |-> loc["char_visuals"],
          outfit |-> Some(loc["char_outfit"]),
          expression |-> Some(loc["char_expression"]) ],
        [ setting |-> loc["env_setting"],
          mood |-> Some(loc["env_mood"]),
          time_of_day |-> Some(loc["env_time_of_day"]) ],
        [ shot_type |-> loc["cam_shot_type"],
          angle |-> Some(loc["cam_angle"]),
          lens |-> Some(loc["cam_lens"]),
          composition_notes |-> None ],
        [ description |-> loc["light_desc"],
          temperature |-> Some(loc["light_temp"]) ],
        [ genre |-> loc["art_genre"],
          influences |-> Some(loc["art_influences"]),
          additional_details |-> None ],
        loc["subject"], loc["ambiance"], NegativePromptsList(kt))

---------------------------------------------------------------------------
(* The text-generation port (lm_client): an injected collaborator whose    *)
(* answer to a call is ordinary text or an "Error:"-prefixed string        *)

CharacterNames ==
    { "Marge Simpson", "gandalf the grey", "A futuristic space explorer" }

PortText ==
    [ char_visuals    |-> "tall blue hair, yellow skin",
      char_outfit     |-> "green dress and red pearls",
      char_expression |-> "patient motherly smile",
      env_setting     |-> "suburban kitchen",
      env_mood        |-> "cozy and bright",
      env_time_of_day |-> "early morning",
      art_genre       |-> "cartoon illustration",
      art_influences  |-> "Matt Groening",
      cam_shot_type   |-> "waist-up shot",
      cam_angle       |-> "three-quarter view",
      cam_lens        |-> "50mm prime",
      light_desc      |-> "soft window light",
      light_temp      |-> "neutral daylight",
      subject         |-> "her towering hairdo",
      ambiance        |-> "domestic calm" ]

ErrorReplies == { "Error: timeout" }

IsError(s) == StartsWith(s, "Error:")

\* the answers the port may give to the call for `node` when `n` faulty
\* answers were already given in the run
PortReplies(node, n) ==
    {PortText[node]} \cup (IF n < MaxFaults THEN ErrorReplies ELSE {})

---------------------------------------------------------------------------
(* utils/lmstudio_client.py : LMStudioClient.generate_text                 *)
(*                                                                         *)
(* A JSON value is a record with a tag t and a value v: an object is a     *)
(* function from its keys, an array a sequence, a string a string.         *)

JObj(f) == [t |-> "obj", v |-> f]
JArr(xs) == [t |-> "arr", v |-> xs]
JStr(x) == [t |-> "str", v |-> x]
JNum(n) == [t |-> "num", v |-> n]
JNull == [t |-> "null", v |-> 0]

\* `not x` of a value loaded from JSON
Falsy(j) ==
    CASE j.t = "null" -> TRUE
      [] j.t = "num"  -> j.v = 0
      [] j.t = "str"  -> j.v = ""
      [] j.t = "arr"  -> Len(j.v) = 0
      [] j.t = "obj"  -> DOMAIN j.v = {}

\* d.get(key) of a dict d: None when the key is missing
Get(d, key) == IF key \in DOMAIN d.v THEN d.v[key] ELSE JNull

\* how a call of a function ends: it returns a value or raises
Returns(x) == [returned |-> Some(x), raised |-> None]
Raises(exc) == [returned |-> None, raised |-> Some(exc)]

UNEXPECTED_STRUCTURE == "Error: Unexpected response structure from LM Studio API."

\* lines 43-49: the checks on completion_data and the stripped content
ExtractContent(completion_data) ==
    IF completion_data.t # "obj" THEN Raises("AttributeError")
    ELSE LET choices == Get(completion_data, "choices")
    IN  IF Falsy(choices) THEN Returns(UNEXPECTED_STRUCTURE)
        ELSE IF choices.t = "obj" THEN Raises("KeyError")
        ELSE IF choices.t = "num" THEN Raises("TypeError")
        ELSE LET first == IF choices.t = "arr" THEN choices.v[1]
                          ELSE JStr(SubSeq(choices.v, 1, 1))
        IN  IF first.t # "obj" THEN Raises("AttributeError")
            ELSE LET message == Get(first, "message")
            IN  IF Falsy(message) THEN Returns(UNEXPECTED_STRUCTURE)
                ELSE IF message.t # "obj" THEN Raises("AttributeError")
                ELSE LET content == Get(message, "content")
                IN  IF Falsy(content) THEN Returns(UNEXPECTED_STRUCTURE)
                    ELSE IF content.t # "str" THEN Raises("AttributeError")
                    ELSE Returns(strip(content.v))

\* the try block: requests.post, raise_for_status, response.json(), the
\* checks, for what the server (or the network) answered
TryRequest(response) ==
    CASE response.kind = "refused" -> Raises("ConnectionError")
      [] response.kind = "timeout" -> Raises("Timeout")
      [] response.kind = "http"    -> Raises("HTTPError")
      [] response.kind = "invalid" -> Raises(response.error)
      [] response.kind = "json"    -> ExtractContent(response.body)

\* str(e) of the exception raised for the response
ExceptionText(response) ==
    CASE response.kind = "refused" -> "Connection refused"
      [] response.kind = "timeout" -> "Read timed out"
      [] response.kind = "http"    -> response.status \o " Error"
      [] OTHER                     -> "Expecting value: line 1 column 1 (char 0)"

\* generate_text: the try block and its three except clauses, in order
generate_text(response) ==
    LET attempt == TryRequest(response)
    IN  IF attempt.raised = None THEN attempt
        ELSE IF Caught({"RequestException"}, attempt.raised[1])
        THEN Returns("Error: Error connecting to LM Studio or during request: "
                         \o ExceptionText(response))
        ELSE IF Caught({"JSONDecodeError"}, attempt.raised[1])
        THEN Returns("Error: Error: Could not decode JSON response from LM Studio API.")
        ELSE IF Caught({"KeyError"}, attempt.raised[1])
        THEN Returns("Error: Error: 'choices' or 'content' not found in LM Studio API response.")
        ELSE attempt

\* a chat completion whose choices[0].message.content is `content`
Completion(content) ==
    JObj([ choices |-> JArr(<< JObj([ index |-> JNum(0),
                                      message |-> JObj([ role |-> JStr("assistant"),
                                                         content |-> content ]) ]) >>) ])

\* the request does not get a 2xx response
TransportFailures ==
    { [kind |-> "refused"], [kind |-> "timeout"],
      [kind |-> "http", status |-> "404"], [kind |-> "http", status |-> "500"] }

\* a 2xx response whose body is not JSON: response.json() raises the
\* requests library's JSONDecodeError, or json's in older versions
InvalidBodies ==
    { [kind |-> "invalid", error |-> "RequestsJSONDecodeError"],
      [kind |-> "invalid", error |-> "JSONDecodeError"] }

\* 2xx responses with the expected text
TextBodies ==
    { [kind |-> "json", body |-> Completion(JStr("A wise old wizard."))],
      [kind |-> "json", body |-> Completion(JStr("  A brave knight.\n"))] }

\* a 2xx response whose content is only white space
BlankBodies ==
    { [kind |-> "json", body |-> Completion(JStr("  \n"))] }

\* 2xx responses with a JSON body that lacks the content text
ShapelessBodies ==
    { [kind |-> "json", body |-> b] : b \in
        { JObj([error |-> JStr("model not loaded")]),
          JObj([choices |-> JNull]),
          JObj([choices |-> JArr(<<>>)]),
          JObj([choices |-> JArr(<<JObj([index |-> JNum(0)])>>)]),
          JObj([choices |-> JArr(<<JObj([message |-> JNull])>>)]),
          JObj([choices |-> JArr(<<JObj([message |-> JObj([role |-> JStr("assistant")])])>>)]),
          Completion(JNull),
          Completion(JStr("")),
          JNull,
          JArr(<<>>),
          JStr("ok"),
          JNum(5),
          JObj([choices |-> JObj([first |-> JStr("x")])]),
          JObj([choices |-> JStr("abc")]),
          JObj([choices |-> JNum(1)]),
          JObj([choices |-> JArr(<<JStr("x")>>)]),
          JObj([choices |-> JArr(<<JNull>>)]),
          JObj([choices |-> JArr(<<JObj([message |-> JStr("hi")])>>)]),
          JObj([choices |-> JArr(<<JObj([message |-> JArr(<<JStr("hi")>>)])>>)]),
          Completion(JNum(5)),
          Completion(JArr(<<JStr("hi")>>)) } }

ClientResponses ==
    TransportFailures \cup InvalidBodies \cup TextBodies \cup BlankBodies
        \cup ShapelessBodies

\* lmstudio_client.py __main__: three generate_text calls in a row, the
\* third one to a port no server listens on; an exception ends the script
ClientCall(response) ==
    /\ Len(client_log) < 3
    /\ \A i \in 1..Len(client_log) : client_log[i].outcome.raised = None
    /\ Len(client_log) = 2 => response = [kind |-> "refused"]
    /\ client_log' = Append(client_log,
                            [response |-> response, outcome |-> generate_text(response)])
    /\ UNCHANGED <<composeVars, traits_source, raised, held, runs, appVars,
                   assembleVars,
                   captionVars>>

---------------------------------------------------------------------------
(* Actions of a compose_prompt run *)

\* compose_prompt(character_name) is entered: the knowledge-base lookup
ComposeStart(name) ==
    /\ pc \in {"idle", "done"}
    /\ LookupRaises(traits_source) = None
    /\ pc' = "run"
    /\ character_name' = name
    /\ known_traits' = _get_known_traits(character_traits_kb, name)
    /\ locals' = <<>>
    /\ calls' = <<>>
    /\ outstanding' = {}
    /\ replies' = <<>>
    /\ faults' = 0
    /\ prompt_data' = None
    /\ UNCHANGED <<character_traits_kb, assembleVars, hostVars>>

\* compose_prompt(character_name) is entered and the lookup raises: the
\* exception leaves compose_prompt before any call is made
ComposeStartRaise(name) ==
    /\ pc \in {"idle", "done", "raised"}
    /\ LookupRaises(traits_source) # None
    /\ pc' = "raised"
    /\ raised' = LookupRaises(traits_source)
    /\ character_name' = name
    /\ known_traits' = None
    /\ locals' = <<>>
    /\ calls' = <<>>
    /\ outstanding' = {}
    /\ replies' = <<>>
    /\ faults' = 0
    /\ prompt_data' = None
    /\ UNCHANGED <<character_traits_kb, traits_source, callerVars, appVars,
                   assembleVars,
                   captionVars>>

\* the next statement calls lm_client.generate_text
IssueCall ==
    /\ pc = "run"
    /\ outstanding = {}
    /\ Len(calls) < Len(Order)
    /\ LET node == Order[Len(calls) + 1]
           req  == CallFor(node, character_name, known_traits, locals)
           call == [node |-> node, system |-> req.system, user |-> req.user]
       IN  /\ calls' = Append(calls, call)
           /\ outstanding' = {call}
    /\ UNCHANGED <<character_traits_kb, pc, character_name, known_traits,
                   locals, replies, faults, prompt_data, assembleVars, hostVars>>

\* mutant: an "Error:" reply ends the run at once, without a prompt
ReturnCall_abort(reply) ==
    /\ pc = "run"
    /\ \E call \in outstanding :
          /\ reply \in PortReplies(call.node, faults)
          /\ locals' = (call.node :> reply) @@ locals
          /\ outstanding' = outstanding \ {call}
    /\ replies' = Append(replies, reply)
    /\ faults' = IF IsError(reply) THEN faults + 1 ELSE faults
    /\ pc' = IF IsError(reply) THEN "done" ELSE pc
    /\ UNCHANGED <<character_traits_kb, character_name, known_traits,
                   calls, prompt_data, assembleVars, hostVars>>

\* generate_text returns `reply`, which is assigned to the call's local
ReturnCall(reply) ==
    /\ pc = "run"
    /\ \E call \in outstanding :
          /\ reply \in PortReplies(call.node, faults)
          /\ locals' = (call.node :> reply) @@ locals
          /\ outstanding' = outstanding \ {call}
    /\ replies' = Append(replies, reply)
    /\ faults' = IF IsError(reply) THEN faults + 1 ELSE faults
    /\ UNCHANGED <<character_traits_kb, pc, character_name, known_traits,
                   calls, prompt_data, assembleVars, hostVars>>

\* the prompt is built, generate_prompt_string is run on it, and it is
\* returned
ComposeReturn ==
    /\ pc = "run"
    /\ outstanding = {}
    /\ Len(calls) = Len(Order)
    /\ prompt_data' = Some(Assembled(BuildPrompt(locals, known_traits)))
    /\ pc' = "done"
    /\ UNCHANGED <<character_traits_kb, character_name, known_traits, locals,
                   calls, outstanding, replies, faults, assembleVars, hostVars>>

---------------------------------------------------------------------------
(* Concurrent compose_prompt runs on one composer, over the DummyClient of *)
(* composer.py, whose answer is a function of the two instruction strings  *)

\* DummyClient.generate_text(system_prompt, user_prompt)
DummyClient(system_prompt, user_prompt) ==
    LET fallback == "Dummy LLM response for: "
                      \o SubSeq(user_prompt, 1, IF Len(user_prompt) < 50 THEN Len(user_prompt) ELSE 50)
                      \o "..."
    IN  IF Contains(user_prompt, "Marge Simpson")
        THEN IF Contains(system_prompt, "visuals")
             THEN "Marge Simpson with tall blue hair, yellow skin."
             ELSE IF Contains(system_prompt, "outfit")
             THEN "Wearing her iconic green dress and red pearls."
             ELSE IF Contains(system_prompt, "expression")
             THEN "A patient, motherly smile."
             ELSE fallback
        ELSE IF Contains(user_prompt, "Gandalf")
        THEN IF Contains(system_prompt, "visuals")
             THEN "Gandalf the Grey, an old wizard with a long grey beard."
             ELSE IF Contains(system_prompt, "outfit")
             THEN "Grey robes, pointed hat, and a wooden staff."
             ELSE fallback
        ELSE fallback

RunIds == {1, 2}

\* mutant: the results are kept in a dict of the composer, where the other
\* run's assignments overwrite this run's
RunLocals_shared(rs, r) ==
    LET others == {o \in DOMAIN rs : o # r}
    IN  IF others = {} THEN rs[r].locals
        ELSE rs[CHOOSE o \in others : TRUE].locals @@ rs[r].locals

\* the local variables a run reads: those of its own call frame
RunLocals(rs, r) == rs[r].locals

\* compose_prompt(name) is entered by a thread: the lookup
RunStart(r, name) ==
    /\ r \notin DOMAIN runs
    /\ runs' = (r :> [ pc |-> "run",
                       character_name |-> name,
                       known_traits |-> _get_known_traits(character_traits_kb, name),
                       locals |-> <<>>,
                       calls |-> <<>>,
                       waiting |-> None,
                       prompt_data |-> None ]) @@ runs
    /\ UNCHANGED <<composeVars, traits_source, raised, held, client_log,
                   appVars, assembleVars,
                   captionVars>>

\* mutant: once the composer has returned a prompt it asks, in every later
\* instruction, for an answer that differs from the earlier one
RunIssue_varying(r) ==
    /\ r \in DOMAIN runs
    /\ runs[r].pc = "run"
    /\ runs[r].waiting = None
    /\ Cardinality(DOMAIN runs[r].locals) < Len(Order)
    /\ LET node == Order[Cardinality(DOMAIN runs[r].locals) + 1]
           req  == CallFor(node, runs[r].character_name, runs[r].known_traits,
                           RunLocals(runs, r))
           more == IF \E o \in DOMAIN runs : runs[o].pc = "done"
                   THEN " Give a new variation." ELSE ""
           call == [node |-> node, system |-> req.system, user |-> req.user \o more]
       IN  runs' = [runs EXCEPT ![r].waiting = Some(call),
                                ![r].calls = Append(@, call)]
    /\ UNCHANGED <<composeVars, traits_source, raised, held, client_log,
                   appVars, assembleVars,
                   captionVars>>

\* the run's next statement calls generate_text
RunIssue(r) ==
    /\ r \in DOMAIN runs
    /\ runs[r].pc = "run"
    /\ runs[r].waiting = None
    /\ Cardinality(DOMAIN runs[r].locals) < Len(Order)
    /\ LET node == Order[Cardinality(DOMAIN runs[r].locals) + 1]
           req  == CallFor(node, runs[r].character_name, runs[r].known_traits,
                           RunLocals(runs, r))
           call == [node |-> node, system |-> req.system, user |-> req.user]
       IN  runs' = [runs EXCEPT ![r].waiting = Some(call),
                                ![r].calls = Append(@, call)]
    /\ UNCHANGED <<composeVars, traits_source, raised, held, client_log,
                   appVars, assembleVars,
                   captionVars>>

\* the port answers the run's call, and the answer is assigned
RunAnswer(r) ==
    /\ r \in DOMAIN runs
    /\ runs[r].waiting # None
    /\ LET call == runs[r].waiting[1]
       IN  runs' = [runs EXCEPT
                       ![r].locals = (call.node :> DummyClient(call.system, call.user)) @@ @,
                       ![r].waiting = None]
    /\ UNCHANGED <<composeVars, traits_source, raised, held, client_log,
                   appVars, assembleVars,
                   captionVars>>

\* the run builds its prompt and returns it
RunReturn(r) ==
    /\ r \in DOMAIN runs
    /\ runs[r].pc = "run"
    /\ runs[r].waiting = None
    /\ Cardinality(DOMAIN runs[r].locals) = Len(Order)
    /\ runs' = [runs EXCEPT
                    ![r].prompt_data =
                        Some(Assembled(BuildPrompt(RunLocals(runs, r), runs[r].known_traits))),
                    ![r].pc = "done"]
    /\ UNCHANGED <<composeVars, traits_source, raised, held, client_log,
                   appVars, assembleVars,
                   captionVars>>

---------------------------------------------------------------------------
(* app.py : generate_cinematic_prompt over a PromptComposer whose port is  *)
(* an LMStudioClient                                                       *)

\* utils/image_preview.py : PLACEHOLDER_IMAGE_PATH
PLACEHOLDER_IMAGE_PATH == "static/preview.jpg"

\* str(e) of an exception that left compose_prompt
StrOf(exc) ==
    CASE exc = "AttributeError" -> "object has no attribute 'get'"
      [] exc = "TypeError"      -> "object is not subscriptable"
      [] OTHER                  -> exc

\* mutant: the name is tested without strip()
ValidName_unstripped(name) == name # ""

\* `if not character_name.strip():` does not reject the name
ValidName(name) == strip(name) # ""

\* the tuple returned for a rejected name
ValidationResult ==
    [ prompt |-> "Please enter a character name.",
      json   |-> <<>>,
      image  |-> PLACEHOLDER_IMAGE_PATH,
      status |-> "Character name cannot be empty." ]

\* the tuple returned from the except clause
ErrorResult(exc) ==
    [ prompt |-> "Error generating prompt. Check console for details.",
      json   |-> [error |-> StrOf(exc)],
      image  |-> PLACEHOLDER_IMAGE_PATH,
      status |-> "An error occurred: " \o StrOf(exc) ]

\* mutant: a prompt string that holds "Error:" is answered like an
\* exception
PromptResult_flagged(prompt, enable) ==
    IF Contains(prompt.final_prompt_string[1], "Error:")
    THEN [ prompt |-> "Error generating prompt. Check console for details.",
           json   |-> [error |-> "generation failed"],
           image  |-> PLACEHOLDER_IMAGE_PATH,
           status |-> "An error occurred: generation failed" ]
    ELSE [ prompt |-> prompt.final_prompt_string[1],
           json   |-> prompt,
           image  |-> PLACEHOLDER_IMAGE_PATH,
           status |-> IF enable
                      THEN "Prompt generated. ComfyUI preview stub called (returns placeholder)."
                      ELSE "Prompt generated. ComfyUI preview disabled." ]

\* the tuple returned for a composed prompt
PromptResult(prompt, enable) ==
    [ prompt |-> prompt.final_prompt_string[1],
      json   |-> prompt,
      image  |-> PLACEHOLDER_IMAGE_PATH,
      status |-> IF enable
                 THEN "Prompt generated. ComfyUI preview stub called (returns placeholder)."
                 ELSE "Prompt generated. ComfyUI preview disabled." ]

\* mutant: only errors of the prompt's content are caught
AppHandlers_narrow == {"KeyError", "ValueError"}

\* the except clause of generate_cinematic_prompt
AppHandlers == {"Exception"}

\* generate_cinematic_prompt(name, enable) is called: the name is checked,
\* and a rejected name is answered at once
AppCall(name, enable) ==
    /\ app_pc \in {"ready", "returned"}
    /\ app_args' = Some([character_name |-> name, enable_comfyui_preview |-> enable])
    /\ IF ValidName(name)
       THEN app_pc' = "calling" /\ app_result' = None
       ELSE app_pc' = "returned" /\ app_result' = Some(ValidationResult)
    /\ pc' = "idle"
    /\ character_name' = ""
    /\ known_traits' = None
    /\ locals' = <<>>
    /\ calls' = <<>>
    /\ outstanding' = {}
    /\ replies' = <<>>
    /\ faults' = 0
    /\ prompt_data' = None
    /\ raised' = None
    /\ UNCHANGED <<character_traits_kb, traits_source, callerVars, assembleVars,
                   captionVars>>

\* what the LM Studio server answers to the requests of the application
AppResponses ==
    { [kind |-> "json", body |-> Completion(JStr("A wise old wizard."))],
      [kind |-> "json", body |-> Completion(JStr("  \n"))],
      [kind |-> "refused"],
      [kind |-> "json", body |-> JArr(<<>>)] }

OrdinaryResponse(response) ==
    response = [kind |-> "json", body |-> Completion(JStr("A wise old wizard."))]

\* lm_client.generate_text returns for the server's response, and the
\* string is assigned to the call's local
ClientReturn(response) ==
    /\ pc = "run"
    /\ OrdinaryResponse(response) \/ faults < MaxOdd
    /\ generate_text(response).raised = None
    /\ \E call \in outstanding :
          /\ locals' = (call.node :> generate_text(response).returned[1]) @@ locals
          /\ replies' = Append(replies, generate_text(response).returned[1])
          /\ outstanding' = outstanding \ {call}
    /\ faults' = IF OrdinaryResponse(response) THEN faults ELSE faults + 1
    /\ UNCHANGED <<character_traits_kb, pc, character_name, known_traits,
                   calls, prompt_data, assembleVars, hostVars>>

\* lm_client.generate_text raises for the server's response: the exception
\* leaves compose_prompt
ClientRaise(response) ==
    /\ pc = "run"
    /\ OrdinaryResponse(response) \/ faults < MaxOdd
    /\ generate_text(response).raised # None
    /\ outstanding # {}
    /\ outstanding' = {}
    /\ pc' = "raised"
    /\ raised' = generate_text(response).raised
    /\ faults' = faults + 1
    /\ UNCHANGED <<character_traits_kb, character_name, known_traits, locals,
                   calls, replies, prompt_data, traits_source, callerVars,
                   appVars, assembleVars,
                   captionVars>>

\* compose_prompt returned: the four values are built and returned
AppReturn ==
    /\ app_pc = "calling"
    /\ pc = "done"
    /\ app_result' = Some(PromptResult(prompt_data[1], app_args[1].enable_comfyui_preview))
    /\ app_pc' = "returned"
    /\ UNCHANGED <<composeVars, traits_source, raised, callerVars, app_args,
                   assembleVars,
                   captionVars>>

\* an exception left compose_prompt: the except clause returns the error
\* values, or the exception leaves generate_cinematic_prompt
AppCatch ==
    /\ app_pc = "calling"
    /\ pc = "raised"
    /\ IF Caught(AppHandlers, raised[1])
       THEN app_pc' = "returned" /\ app_result' = Some(ErrorResult(raised[1]))
       ELSE app_pc' = "crashed" /\ app_result' = None
    /\ UNCHANGED <<composeVars, traits_source, raised, callerVars, app_args,
                   assembleVars,
                   captionVars>>

\* the index of the record the lookup of `name` returns (0: none)
KnownIndex(kb, name) ==
    LET hits == {i \in 1..Len(kb) : lower(kb[i].name) = lower(name)}
    IN  IF hits = {} THEN 0 ELSE CHOOSE i \in hits : \A j \in hits : i <= j

\* mutant: negative_prompts_list = known_traits["negative_prompt_keywords"],
\* the knowledge base's own list
NegativeListIdentity_aliased(kb, name, k) ==
    IF HasKeywords(_get_known_traits(kb, name), "negative_prompt_keywords")
    THEN <<"kb", KnownIndex(kb, name)>>
    ELSE <<"new", k>>

\* the list object that becomes the prompt's negative_prompt_elements:
\* `negative_prompts_list = []` makes a new list (the k-th the caller
\* holds), which extend() fills with the record's keywords
NegativeListIdentity(kb, name, k) == <<"new", k>>

\* structured_prompt = composer.compose_prompt(name): the caller keeps the
\* returned prompt; the frame of the run is gone
CallerKeeps ==
    /\ pc = "done"
    /\ Len(held) < MaxHeld
    /\ held' = Append(held,
                      [ prompt |-> prompt_data[1],
                        list |-> NegativeListIdentity(character_traits_kb,
                                     character_name, Len(held) + 1) ])
    /\ pc' = "idle"
    /\ character_name' = ""
    /\ known_traits' = None
    /\ locals' = <<>>
    /\ calls' = <<>>
    /\ outstanding' = {}
    /\ replies' = <<>>
    /\ faults' = 0
    /\ prompt_data' = None
    /\ UNCHANGED <<character_traits_kb, traits_source, raised, runs,
                   client_log, appVars, assembleVars,
                   captionVars>>

\* the number of elements equal to x in the list xs
CountOf(xs, x) == Cardinality({i \in 1..Len(xs) : xs[i] = x})

\* held[j].prompt.negative_prompt_elements.append(x) by the caller: the
\* list object changes, and with it every holder of that object
CallerMutates(j, x) ==
    /\ j \in 1..Len(held)
    /\ CountOf(held[j].prompt.negative_prompt_elements, x) < MaxAppends
    /\ held' = [ i \in 1..Len(held) |->
                   IF held[i].list = held[j].list
                   THEN [held[i] EXCEPT !.prompt.negative_prompt_elements = Append(@, x)]
                   ELSE held[i] ]
    /\ character_traits_kb' =
          IF held[j].list[1] = "kb"
          THEN [character_traits_kb EXCEPT
                   ![held[j].list[2]].traits.negative_prompt_keywords = Append(@, x)]
          ELSE character_traits_kb
    /\ UNCHANGED <<pc, character_name, known_traits, locals, calls,
                   outstanding, replies, faults, prompt_data, traits_source,
                   raised, runs, client_log, appVars, assembleVars,
                   captionVars>>

\* PromptComposer(lm_client, traits_file_path): __init__ empties the
\* knowledge base and loads it from the source
Construct(source) ==
    /\ pc = "new"
    /\ traits_source' = source
    /\ character_traits_kb' = _load_character_traits(source)
    /\ pc' = IF LoadEscapes(source) THEN "failed" ELSE "idle"
    /\ UNCHANGED <<character_name, known_traits, locals, calls, outstanding,
                   replies, faults, prompt_data, raised, callerVars, appVars,
                   assembleVars,
                   captionVars>>

---------------------------------------------------------------------------
(* utils/florence2_captioner.py : the module's two globals and its two     *)
(* functions                                                               *)

MODEL_ID == "microsoft/Florence-2-base"

\* what the two from_pretrained calls of an initialization do: each one
\* returns (None) or raises the named exception; the processor is loaded
\* only after the model was
LoadAttempts ==
    { [model |-> None, processor |-> None],
      [model |-> Some("ImportError"), processor |-> None],
      [model |-> Some("OSError"), processor |-> None],
      [model |-> Some("RuntimeError"), processor |-> None],
      [model |-> None, processor |-> Some("OSError")],
      [model |-> None, processor |-> Some("ValueError")] }

\* the except clauses of initialize_florence_model
InitHandlers == {"ImportError", "Exception"}

\* mutant: the except clauses return False without resetting the globals
AfterFailedLoad_kept(g) == g

\* the globals after an except clause of initialize_florence_model:
\* FLORENCE_MODEL = None, FLORENCE_PROCESSOR = None
AfterFailedLoad(g) == [model |-> None, processor |-> None]

\* initialize_florence_model() run on the globals g: the globals it
\* leaves, how it ends, and whether it tried to load
initialize_florence_model(g, attempt) ==
    IF g.model # None /\ g.processor # None
    THEN [globals |-> g, outcome |-> Returns(TRUE), loading |-> FALSE]
    ELSE IF attempt.model # None
    THEN IF Caught(InitHandlers, attempt.model[1])
         THEN [globals |-> AfterFailedLoad(g), outcome |-> Returns(FALSE), loading |-> TRUE]
         ELSE [globals |-> g, outcome |-> Raises(attempt.model[1]), loading |-> TRUE]
    ELSE LET g1 == [g EXCEPT !.model = Some(MODEL_ID)]
         IN  IF attempt.processor # None
             THEN IF Caught(InitHandlers, attempt.processor[1])
                  THEN [globals |-> AfterFailedLoad(g1), outcome |-> Returns(FALSE), loading |-> TRUE]
                  ELSE [globals |-> g1, outcome |-> Raises(attempt.processor[1]), loading |-> TRUE]
             ELSE [globals |-> [g1 EXCEPT !.processor = Some(MODEL_ID)],
                   outcome |-> Returns(TRUE), loading |-> TRUE]

NOT_INITIALIZED == "Error: Florence-2 model is not initialized. Please call initialize_florence_model() first."
CAPTION_NOT_FOUND == "Error: Caption not found in processed output."

\* calls of get_caption_for_image: the image argument (a PIL image, an
\* array Image.fromarray converts, a value it cannot convert), the task
\* prompt, and what the processor and the model do with them: they give a
\* caption string, a result without the task's key, a result whose value
\* is not a string (which `caption[:100]` rejects with TypeError, or
\* KeyError from Python 3.12 on), or raise
CaptionCalls ==
    { [image |-> "pil", task_prompt |-> "<MORE_DETAILED_CAPTION>",
       run |-> [kind |-> "caption", text |-> "A woman with tall blue hair."]],
      [image |-> "array", task_prompt |-> "<CAPTION>",
       run |-> [kind |-> "caption", text |-> "A wizard."]],
      [image |-> "path", task_prompt |-> "<MORE_DETAILED_CAPTION>",
       run |-> [kind |-> "caption", text |-> "A wizard."]],
      [image |-> "pil", task_prompt |-> "<MORE_DETAILED_CAPTION>",
       run |-> [kind |-> "nokey"]],
      [image |-> "pil", task_prompt |-> "<OD>",
       run |-> [kind |-> "raises", error |-> "TypeError"]],
      [image |-> "pil", task_prompt |-> "<OD>",
       run |-> [kind |-> "raises", error |-> "KeyError"]],
      [image |-> "pil", task_prompt |-> "<MORE_DETAILED_CAPTION>",
       run |-> [kind |-> "raises", error |-> "RuntimeError"]],
      [image |-> "array", task_prompt |-> "<MORE_DETAILED_CAPTION>",
       run |-> [kind |-> "raises", error |-> "ValueError"]] }

\* str(e) of an exception raised while captioning
CaptionErrorText(exc) ==
    CASE exc = "RuntimeError" -> "CUDA out of memory."
      [] exc = "TypeError"    -> "unhashable type: 'slice'"
      [] exc = "KeyError"     -> "slice(None, 100, None)"
      [] OTHER                -> "Unable to infer channel dimension format"

\* the except clauses of get_caption_for_image (lines 73 and 105)
CaptionHandlers == {"Exception"}

\* get_caption_for_image(image, task_prompt) run on the globals g
get_caption_for_image(g, call) ==
    IF g.model = None \/ g.processor = None
    THEN Returns(NOT_INITIALIZED)
    ELSE IF call.image = "path"
    THEN IF Caught(CaptionHandlers, "AttributeError")
         THEN Returns("Error: Input is not a valid PIL Image and could not be converted. Details: 'str' object has no attribute '__array_interface__'")
         ELSE Raises("AttributeError")
    ELSE IF call.run.kind = "raises"
    THEN IF Caught(CaptionHandlers, call.run.error)
         THEN Returns("Error during Florence-2 image captioning: " \o CaptionErrorText(call.run.error))
         ELSE Raises(call.run.error)
    ELSE IF call.run.kind = "nokey"
    THEN Returns(CAPTION_NOT_FOUND)
    ELSE Returns(call.run.text)

\* the two globals of the module
Globals == [model |-> FLORENCE_MODEL, processor |-> FLORENCE_PROCESSOR]

\* a caller runs initialize_florence_model()
InitializeFlorence(attempt) ==
    /\ Len(caption_log) < MaxCaptionCalls
    /\ \A i \in 1..Len(caption_log) : caption_log[i].outcome.raised = None
    /\ LET done == initialize_florence_model(Globals, attempt)
       IN  /\ FLORENCE_MODEL' = done.globals.model
           /\ FLORENCE_PROCESSOR' = done.globals.processor
           /\ caption_log' = Append(caption_log,
                  [ op |-> "initialize", before |-> Globals, after |-> done.globals,
                    outcome |-> done.outcome, loading |-> done.loading ])
    /\ UNCHANGED <<composeVars, traits_source, raised, callerVars, appVars,
                   assembleVars>>

\* a caller runs get_caption_for_image(image, task_prompt)
GetCaption(call) ==
    /\ Len(caption_log) < MaxCaptionCalls
    /\ \A i \in 1..Len(caption_log) : caption_log[i].outcome.raised = None
    /\ caption_log' = Append(caption_log,
           [ op |-> "caption", before |-> Globals, after |-> Globals,
             outcome |-> get_caption_for_image(Globals, call), call |-> call ])
    /\ UNCHANGED <<composeVars, traits_source, raised, callerVars, appVars,
                   assembleVars, FLORENCE_MODEL, FLORENCE_PROCESSOR>>

---------------------------------------------------------------------------
(* Specifications *)

ComposerIdle ==
    /\ pc = "idle"
    /\ character_name = ""
    /\ known_traits = None
    /\ locals = <<>>
    /\ calls = <<>>
    /\ outstanding = {}
    /\ replies = <<>>
    /\ faults = 0
    /\ prompt_data = None

\* no request, no kept prompt, no concurrent run, no client program, and
\* the captioner module as imported
HostIdle ==
    /\ raised = None
    /\ held = <<>>
    /\ runs = <<>>
    /\ client_log = <<>>
    /\ app_pc = "ready"
    /\ app_args = None
    /\ app_result = None
    /\ FLORENCE_MODEL = None
    /\ FLORENCE_PROCESSOR = None
    /\ caption_log = <<>>

\* a composer constructed over a traits source; no sample prompt in use
Init ==
    /\ \E source \in TraitsSources :
          /\ traits_source = source
          /\ character_traits_kb = _load_character_traits(source)
    /\ ComposerIdle
    /\ HostIdle
    /\ sample_prompt = SamplePrompt(MinimalRequired,
                                    [f \in OptionalFields |-> "none"], <<>>)
    /\ returns = <<>>

Next ==
    \/ \E name \in CharacterNames : ComposeStart(name)
    \/ IssueCall
    \/ \E reply \in {PortText[n] : n \in Nodes} \cup ErrorReplies : ReturnCall(reply)
    \/ ComposeReturn

Spec == Init /\ [][Next]_vars

\* a sample prompt constructed by a caller; the composer stays idle
InitAssemble ==
    /\ \E case \in SampleCases, ch \in OptionalChoices :
          sample_prompt = SamplePrompt(case.required, ch, case.negs)
    /\ returns = <<>>
    /\ character_traits_kb = <<>>
    /\ traits_source = [kind |-> "missing"]
    /\ ComposerIdle
    /\ HostIdle

NextAssemble == GeneratePromptString

SpecAssemble == InitAssemble /\ [][NextAssemble]_vars

\* names compose_prompt is asked for: keys of the traits file in other
\* letter cases, parts and extensions of a key, and unknown names
LookupNames ==
    { "Marge Simpson", "marge simpson", "MARGE SIMPSON", "Marge",
      "arge Simps", "Marge Simpsons", "gandalf the grey",
      "A futuristic space explorer" }

\* names a caller asks prompts for and keeps them
OwnNames == { "Marge Simpson", "A futuristic space explorer" }

\* a caller that keeps the prompts it is returned and appends to their
\* negative lists; the port answers every call with text
NextOwn ==
    \/ \E name \in OwnNames : ComposeStart(name)
    \/ IssueCall
    \/ \E n \in Nodes : ReturnCall(PortText[n])
    \/ ComposeReturn
    \/ CallerKeeps
    \/ \E j \in 1..MaxHeld : CallerMutates(j, "watermark")

SpecOwn == Init /\ [][NextOwn]_vars

\* names entered in the user interface
AppNames == { "", "  ", " \t\n", "Marge Simpson", " Marge Simpson" }

\* the application with its composer constructed over the traits file
InitApp ==
    /\ traits_source = [kind |-> "json", value |-> TraitsFile]
    /\ character_traits_kb = _load_character_traits(traits_source)
    /\ ComposerIdle
    /\ HostIdle
    /\ sample_prompt = SamplePrompt(MinimalRequired,
                                    [f \in OptionalFields |-> "none"], <<>>)
    /\ returns = <<>>

\* requests of the user interface, one at a time
NextApp ==
    \/ \E name \in AppNames, enable \in BOOLEAN : AppCall(name, enable)
    \/ (app_pc = "calling" /\ pc = "idle" /\ ComposeStart(app_args[1].character_name))
    \/ (app_pc = "calling" /\ IssueCall)
    \/ \E response \in AppResponses : ClientReturn(response)
    \/ \E response \in AppResponses : ClientRaise(response)
    \/ (app_pc = "calling" /\ ComposeReturn)
    \/ AppReturn
    \/ AppCatch

SpecApp == InitApp /\ [][NextApp]_vars

\* callers of the captioner module: initializations that succeed or fail,
\* captioning calls before and after them
NextCaption ==
    \/ \E attempt \in LoadAttempts : InitializeFlorence(attempt)
    \/ \E call \in CaptionCalls : GetCaption(call)

SpecCaption == InitApp /\ [][NextCaption]_vars

\* the test program of lmstudio_client.py against a server that may answer
\* anything
NextClient == \E response \in ClientResponses : ClientCall(response)

SpecClient == Init /\ [][NextClient]_vars

\* two threads, each running compose_prompt once on the same composer
NextConcurrent ==
    \E r \in RunIds :
        \/ \E name \in CharacterNames : RunStart(r, name)
        \/ RunIssue(r)
        \/ RunAnswer(r)
        \/ RunReturn(r)

SpecConcurrent == Init /\ [][NextConcurrent]_vars

\* a composer about to be constructed, then asked for prompts by a port
\* that answers every call with text
InitLoad ==
    /\ pc = "new"
    /\ character_traits_kb = <<>>
    /\ traits_source = [kind |-> "unset"]
    /\ character_name = ""
    /\ known_traits = None
    /\ locals = <<>>
    /\ calls = <<>>
    /\ outstanding = {}
    /\ replies = <<>>
    /\ faults = 0
    /\ prompt_data = None
    /\ HostIdle
    /\ sample_prompt = SamplePrompt(MinimalRequired,
                                    [f \in OptionalFields |-> "none"], <<>>)
    /\ returns = <<>>

NextLoad ==
    \/ \E source \in TraitsSources \cup BrokenSources : Construct(source)
    \/ \E name \in LookupNames : ComposeStart(name)
    \/ IssueCall
    \/ \E n \in Nodes : ReturnCall(PortText[n])
    \/ ComposeReturn

SpecLoad == InitLoad /\ [][NextLoad]_vars

\* a composer constructed over a traits file whose text is JSON of any
\* type, then asked for prompts by a port that answers every call with text
NextParsed ==
    \/ \E source \in ObjectSources \cup NonObjectSources : Construct(source)
    \/ \E name \in CharacterNames : ComposeStart(name)
    \/ \E name \in CharacterNames : ComposeStartRaise(name)
    \/ IssueCall
    \/ \E n \in Nodes : ReturnCall(PortText[n])
    \/ ComposeReturn

SpecParsed == InitLoad /\ [][NextParsed]_vars

---------------------------------------------------------------------------
(* Properties of compose_prompt, stated for Spec *)

\* the nodes of the calls issued so far
Issued == {calls[i].node : i \in 1..Len(calls)}

Returned(node) == \E i \in 1..Len(replies) : calls[i].node = node

\* what the port answered to the call for `node` (the i-th reply answers
\* the i-th call: a call is issued only after the one before it returned)
ReplyTo(node) == replies[CHOOSE i \in 1..Len(replies) : calls[i].node = node]

\* the run is not stuck: the call in flight can return, or the next call
\* can be issued, or all fifteen calls have returned and the prompt is
\* built next
RunCanStep ==
    \/ ENABLED (\E reply \in {PortText[n] : n \in Nodes} \cup ErrorReplies : ReturnCall(reply))
    \/ ENABLED IssueCall
    \/ (outstanding = {} /\ Len(replies) = 15 /\ DOMAIN locals = Nodes)

C2_SettingError ==
    (Returned("env_setting") /\ IsError(ReplyTo("env_setting"))) =>
        /\ pc = "run" => RunCanStep
        /\ pc = "done" =>
              /\ prompt_data # None
              /\ prompt_data[1].environment.setting = ReplyTo("env_setting")
              /\ Contains(prompt_data[1].final_prompt_string[1],
                          "in a " \o ReplyTo("env_setting"))

C2_Witness ==
    /\ pc = "done"
    /\ Returned("env_setting")
    /\ ReplyTo("env_setting") = "Error: timeout"
    /\ Contains(prompt_data[1].final_prompt_string[1], "in a Error: timeout")

\* the generated values each call's task instruction is given, as the
\* fifteen-node DAG declares them
DeclaredInputs ==
    [ char_visuals    |-> {},
      char_outfit     |-> {"char_visuals"},
      char_expression |-> {"char_visuals"},
      env_setting     |-> {},
      env_mood        |-> {"env_setting"},
      env_time_of_day |-> {"env_setting"},
      art_genre       |-> {},
      art_influences  |-> {"art_genre"},
      cam_shot_type   |-> {"env_setting"},
      cam_angle       |-> {"cam_shot_type"},
      cam_lens        |-> {"cam_shot_type", "art_genre"},
      light_desc      |-> {"env_setting", "env_time_of_day"},
      light_temp      |-> {"light_desc"},
      subject         |-> {"char_visuals", "env_setting"},
      ambiance        |-> {"char_visuals", "env_setting", "env_mood"} ]

\* the calls whose task instruction is given the character name
GivenCharacter ==
    { "char_visuals", "char_outfit", "char_expression", "env_setting",
      "art_genre", "cam_shot_type", "cam_angle", "light_desc" }

\* C3: the task instruction of the call in flight quotes, verbatim, the
\* port's answer (text or "Error:" string) to each call the DAG declares as
\* its input, quotes the character name exactly when the DAG gives it the
\* character, and holds no answer of any other call.  (Every call is the
\* call in flight in the state its issue leads to.)
C3_DeclaredInputsOnly ==
    \A call \in outstanding :
        /\ \A m \in DeclaredInputs[call.node] :
               /\ Returned(m)
               /\ Contains(call.user, "'" \o ReplyTo(m) \o "'")
        /\ Contains(call.user, "'" \o character_name \o "'")
               <=> call.node \in GivenCharacter
        /\ \A m \in Nodes \ DeclaredInputs[call.node] :
               (Returned(m) /\ \A d \in DeclaredInputs[call.node] : ReplyTo(d) # ReplyTo(m))
                   => ~Contains(call.user, ReplyTo(m))

C3_Witness ==
    \E call \in outstanding :
        /\ call.node = "ambiance"
        /\ ReplyTo("env_setting") = "Error: timeout"
        /\ ReplyTo("env_mood") = PortText["env_mood"]
        /\ Contains(call.user, "the setting 'Error: timeout', and mood 'cozy and bright'")

\* the order of the fifteen calls
IssueOrder ==
    << "char_visuals", "char_outfit", "char_expression", "env_setting",
       "env_mood", "env_time_of_day", "art_genre", "art_influences",
       "cam_shot_type", "cam_angle", "cam_lens", "light_desc", "light_temp",
       "subject", "ambiance" >>

\* C4: the calls are issued in the fixed order, one after another: the
\* i-th call issued is the i-th of the order, at most one call is
\* outstanding, every call but the one outstanding has returned, and the
\* calls whose output a call consumes were issued before it and have
\* returned.
C4_SequentialOrder ==
    /\ \A i \in 1..Len(calls) : calls[i].node = IssueOrder[i]
    /\ Cardinality(outstanding) <= 1
    /\ Len(replies) + Cardinality(outstanding) = Len(calls)
    /\ outstanding \subseteq {calls[i] : i \in (Len(replies) + 1)..Len(calls)}
    /\ DOMAIN locals = {calls[i].node : i \in 1..Len(replies)}
    /\ \A i \in 1..Len(calls) :
           \A m \in DeclaredInputs[calls[i].node] :
               /\ \E j \in 1..(i - 1) : calls[j].node = m
               /\ m \in DOMAIN locals

C4_Witness ==
    /\ Len(calls) = 15
    /\ outstanding = {calls[15]}
    /\ calls[15].node = "ambiance"
    /\ Len(replies) = 14

\* C5: the prompt compose_prompt returns holds, field by field, the port's
\* answers to the designated calls; composition_notes and
\* additional_details are None; final_prompt_string is set, to the string
\* generate_prompt_string computes from the other fields.
C5_FieldsFromCalls ==
    pc = "done" =>
        LET p == prompt_data[1]
        IN  /\ p.character.description = ReplyTo("char_visuals")
            /\ p.character.outfit = Some(ReplyTo("char_outfit"))
            /\ p.character.expression = Some(ReplyTo("char_expression"))
            /\ p.environment.setting = ReplyTo("env_setting")
            /\ p.environment.mood = Some(ReplyTo("env_mood"))
            /\ p.environment.time_of_day = Some(ReplyTo("env_time_of_day"))
            /\ p.camera.shot_type = ReplyTo("cam_shot_type")
            /\ p.camera.angle = Some(ReplyTo("cam_angle"))
            /\ p.camera.lens = Some(ReplyTo("cam_lens"))
            /\ p.lighting.description = ReplyTo("light_desc")
            /\ p.lighting.temperature = Some(ReplyTo("light_temp"))
            /\ p.style.genre = ReplyTo("art_genre")
            /\ p.style.influences = Some(ReplyTo("art_influences"))
            /\ p.subject_focus = ReplyTo("subject")
            /\ p.ambiance_atmosphere = ReplyTo("ambiance")
            /\ p.camera.composition_notes = None
            /\ p.style.additional_details = None
            /\ p.final_prompt_string # None
            /\ p.final_prompt_string[1] =
                  generate_prompt_string([p EXCEPT !.final_prompt_string = None])

C5_Witness ==
    /\ pc = "done"
    /\ prompt_data # None
    /\ prompt_data[1].character.outfit = Some(PortText["char_outfit"])
    /\ prompt_data[1].lighting.temperature = Some("Error: timeout")

\* C13: the negative_prompt_elements of a returned prompt are the looked-up
\* record's negative_prompt_keywords, in their order, when the lookup found
\* a record that has the field, and the empty list otherwise, whatever the
\* port answered to the fifteen calls: for "Marge Simpson" over the loaded
\* file they are "realistic skin", "3d render"; for a record without the
\* field, for an unknown name and for an empty knowledge base they are empty.
C13_NegativesFromRecord ==
    pc = "done" =>
        LET negs == prompt_data[1].negative_prompt_elements
        IN  /\ IF known_traits # None
                   /\ "negative_prompt_keywords" \in DOMAIN known_traits[1]
                THEN negs = known_traits[1].negative_prompt_keywords
                ELSE negs = <<>>
            /\ IF character_name = "Marge Simpson"
                   /\ character_traits_kb = TraitsFile
                THEN negs = <<"realistic skin", "3d render">>
                ELSE negs = <<>>

C13_Witness ==
    /\ pc = "done"
    /\ character_name = "Marge Simpson"
    /\ prompt_data[1].negative_prompt_elements = <<"realistic skin", "3d render">>
    /\ \E i \in 1..Len(replies) : IsError(replies[i])

\* the calls that can carry a keyword sentence: the field of the record
\* each one reads, and the words that introduce its keywords
HintField ==
    [ char_visuals    |-> "description_keywords",
      char_outfit     |-> "outfit_keywords",
      char_expression |-> "expression_keywords",
      env_setting     |-> "environment_keywords",
      art_genre       |-> "genre_keywords" ]

HintLead ==
    [ char_visuals    |-> "Incorporate these known iconic traits: ",
      char_outfit     |-> "Known iconic outfit elements include: ",
      char_expression |-> "Known expressions or typical demeanor includes: ",
      env_setting     |-> "Consider their typical environments such as: ",
      art_genre       |-> "Consider their typical genre: " ]

\* the base sentence of each of these calls
BaseSentence(node, name, visuals) ==
    CASE node = "char_visuals" ->
             "Describe the character '" \o name \o "'."
      [] node = "char_outfit" ->
             "Given the character '" \o name \o "' who looks like: '" \o visuals \o "', describe their outfit."
      [] node = "char_expression" ->
             "What is the expression of '" \o name \o "' who looks like: '" \o visuals \o "'?"
      [] node = "env_setting" ->
             "Describe a suitable setting for the character '" \o name \o "'."
      [] node = "art_genre" ->
             "What artistic genre best fits '" \o name \o "'?"

\* C24: the task instruction of the visuals, outfit, expression, setting
\* and genre calls is the base sentence followed by one keyword sentence
\* (the lead words, the record's keywords joined by ", ", a period) when
\* the lookup of the character returned a record (the run's known_traits)
\* that has the call's keyword field, and the base sentence alone when
\* there is no record or the record lacks the field.
C24_HintIffField ==
    LET rec     == known_traits
        visuals == IF "char_visuals" \in DOMAIN locals THEN locals["char_visuals"] ELSE ""
    IN  \A i \in 1..Len(calls) :
            calls[i].node \in DOMAIN HintField =>
                LET node == calls[i].node
                    base == BaseSentence(node, character_name, visuals)
                IN  IF rec # None /\ HintField[node] \in DOMAIN rec[1]
                    THEN calls[i].user =
                            base \o " " \o HintLead[node]
                                 \o Join(rec[1][HintField[node]], ", ") \o "."
                    ELSE calls[i].user = base

C24_Witness ==
    /\ pc = "done"
    /\ character_name = "gandalf the grey"
    /\ calls[1].user = "Describe the character 'gandalf the grey'. Incorporate these known iconic traits: long grey beard."
    /\ EndsWith(calls[2].user, "', describe their outfit.")
    /\ calls[7].user = "What artistic genre best fits 'gandalf the grey'? Consider their typical genre: high fantasy."

---------------------------------------------------------------------------
(* Properties of construction and lookup, stated for SpecLoad *)

\* a and b are the same string up to the case of their letters
SameIgnoringCase(a, b) ==
    /\ Len(a) = Len(b)
    /\ \A i \in 1..Len(a) :
          LET x == SubSeq(a, i, i)
              y == SubSeq(b, i, i)
          IN  \/ x = y
              \/ \E k \in 1..26 :
                    {x, y} = {SubSeq(UpperCase, k, k), SubSeq(LowerCase, k, k)}

\* C14: the lookup made by compose_prompt finds a record iff some key of the
\* knowledge base is the queried name up to letter case, as a whole string,
\* and then it is the record of such a key: over the loaded file "Marge
\* Simpson", "marge simpson" and "MARGE SIMPSON" all find Marge's record,
\* and "Marge", "arge Simps" and "Marge Simpsons" find none.
C14_CaseInsensitiveExact ==
    pc \in {"run", "done"} =>
        LET kb   == character_traits_kb
            same == {i \in 1..Len(kb) : SameIgnoringCase(kb[i].name, character_name)}
        IN  /\ known_traits # None <=> same # {}
            /\ known_traits # None =>
                  \E i \in same : known_traits = Some(kb[i].traits)
            /\ (kb = TraitsFile
                   /\ character_name \in {"Marge Simpson", "marge simpson", "MARGE SIMPSON"})
                  => known_traits = Some(TraitsFile[1].traits)
            /\ character_name \in {"Marge", "arge Simps", "Marge Simpsons"}
                  => known_traits = None

C14_Witness ==
    /\ pc = "done"
    /\ character_name = "MARGE SIMPSON"
    /\ known_traits = Some(TraitsFile[1].traits)
    /\ prompt_data[1].negative_prompt_elements = <<"realistic skin", "3d render">>

\* the requests compose_prompt makes when no record is known
PureGeneration ==
    \A i \in 1..Len(calls) :
        LET req == CallFor(calls[i].node, character_name, None, locals)
        IN  calls[i].system = req.system /\ calls[i].user = req.user

\* C15: construction never fails because of the traits source; after
\* construction over a missing, unreadable or malformed source the knowledge
\* base is empty, every lookup finds no record, and compose_prompt makes its
\* fifteen calls without any hint from a record and returns a prompt with
\* no negative-prompt elements.
C15_BrokenSourceIsEmpty ==
    /\ pc # "failed"
    /\ (pc # "new" /\ traits_source \in BrokenSources) =>
          /\ character_traits_kb = <<>>
          /\ \A name \in LookupNames :
                _get_known_traits(character_traits_kb, name) = None
          /\ pc \in {"run", "done"} => (known_traits = None /\ PureGeneration)
          /\ pc = "done" =>
                /\ Len(calls) = 15
                /\ prompt_data # None
                /\ prompt_data[1].negative_prompt_elements = <<>>

C15_Witness ==
    /\ pc = "done"
    /\ traits_source.kind = "malformed"
    /\ character_name = "Marge Simpson"
    /\ prompt_data # None

\* C26 as stated: over a traits file whose text is JSON of any type,
\* construction succeeds, and no lookup and no compose_prompt call raises:
\* a run of compose_prompt holds a record or None as known_traits and
\* goes on to its calls.
C26_ParsedSourceNeverRaises ==
    (pc # "new" /\ traits_source \in ObjectSources \cup NonObjectSources) =>
        /\ pc # "failed"
        /\ pc # "raised"
        /\ raised = None

---------------------------------------------------------------------------
(* Ownership of the knowledge base and of the negative lists, for SpecOwn *)

\* the negative_prompt_elements compose_prompt returned for the prompt
OriginalNegatives(prompt) ==
    LET negs == prompt.negative_prompt_elements
        own  == {i \in 1..Len(negs) : negs[i] # "watermark"}
    IN  SubSeq(negs, 1, Cardinality(own))

\* C16: whatever prompts were composed, kept and changed by a caller, the
\* knowledge base is the one that was loaded and every lookup returns what
\* it returned after the load; the negative list of a kept prompt is not a
\* list of the knowledge base nor the list of another kept prompt, so an
\* element appended to one is in no other, and a prompt composed later
\* still starts from the record's keywords.
C16_KnowledgeBaseUnchanged ==
    LET loaded == _load_character_traits(traits_source)
    IN  /\ character_traits_kb = loaded
        /\ \A name \in OwnNames :
              _get_known_traits(character_traits_kb, name) = _get_known_traits(loaded, name)
        /\ \A j \in 1..Len(held) :
              /\ held[j].list[1] # "kb"
              /\ \A k \in 1..Len(held) : held[j].list = held[k].list => j = k
              /\ OriginalNegatives(held[j].prompt) \in
                     {<<>>, TraitsFile[1].traits.negative_prompt_keywords}
        /\ pc = "done" =>
              "watermark" \notin {prompt_data[1].negative_prompt_elements[i] :
                                    i \in 1..Len(prompt_data[1].negative_prompt_elements)}

C16_Witness ==
    /\ Len(held) = 2
    /\ held[1].prompt.negative_prompt_elements = <<"realistic skin", "3d render", "watermark">>
    /\ held[2].prompt.negative_prompt_elements = <<"realistic skin", "3d render">>
    /\ pc = "done"
    /\ character_name = "Marge Simpson"

---------------------------------------------------------------------------
(* Independence of concurrent runs, for SpecConcurrent *)

\* the locals of a run of compose_prompt(name) made alone, after its first
\* i calls were answered by the DummyClient
RECURSIVE SoloLocals(_, _, _)
SoloLocals(name, kt, i) ==
    IF i = 0 THEN <<>>
    ELSE LET before == SoloLocals(name, kt, i - 1)
             req    == CallFor(Order[i], name, kt, before)
         IN  IF Order[i] \in DOMAIN before THEN before
             ELSE (Order[i] :> DummyClient(req.system, req.user)) @@ before

\* the prompt compose_prompt(name) returns when it runs alone
SoloPrompt(kb, name) ==
    LET kt == _get_known_traits(kb, name)
    IN  Assembled(BuildPrompt(SoloLocals(name, kt, Len(Order)), kt))

\* C17: in every interleaving of the calls of two compose_prompt runs on
\* one composer, over a port whose answer is a function of the two
\* instruction strings, the prompt a run returns is the prompt it returns
\* when it runs alone, field for field, and the knowledge base is unchanged.
C17_RunsIndependent ==
    /\ character_traits_kb = _load_character_traits(traits_source)
    /\ \A r \in DOMAIN runs :
          runs[r].pc = "done" =>
              runs[r].prompt_data =
                  Some(SoloPrompt(character_traits_kb, runs[r].character_name))

C17_Witness ==
    /\ DOMAIN runs = RunIds
    /\ runs[1].pc = "done"
    /\ runs[2].pc = "done"
    /\ runs[1].character_name = "Marge Simpson"
    /\ runs[2].character_name = "A futuristic space explorer"
    /\ runs[1].prompt_data[1].character.description # runs[2].prompt_data[1].character.description
    /\ runs[1].prompt_data[1].environment.setting # runs[2].prompt_data[1].environment.setting

\* C28: two runs of compose_prompt with the same character name on one
\* composer, over a port whose answer is a function of the two instruction
\* strings, issue the same (system, user) instruction pairs in the same
\* order, call by call, whether they run one after the other or
\* interleaved; when both have returned, each has issued fifteen calls and
\* their prompts are equal in every field, final_prompt_string included.
C28_Deterministic ==
    \A r1, r2 \in DOMAIN runs :
        runs[r1].character_name = runs[r2].character_name =>
            /\ \A i \in 1..Len(runs[r1].calls) :
                   i <= Len(runs[r2].calls) => runs[r1].calls[i] = runs[r2].calls[i]
            /\ (runs[r1].pc = "done" /\ runs[r2].pc = "done") =>
                   /\ Len(runs[r1].calls) = 15
                   /\ runs[r1].calls = runs[r2].calls
                   /\ runs[r1].prompt_data = runs[r2].prompt_data
                   /\ runs[r1].prompt_data[1].final_prompt_string =
                          runs[r2].prompt_data[1].final_prompt_string
                   /\ runs[r1].prompt_data[1].final_prompt_string # None

C28_Witness ==
    /\ DOMAIN runs = RunIds
    /\ character_traits_kb # <<>>
    /\ runs[1].pc = "done"
    /\ runs[2].pc = "done"
    /\ runs[1].character_name = "gandalf the grey"
    /\ runs[2].character_name = "gandalf the grey"
    /\ Len(runs[1].calls) = 15
    /\ runs[1].calls = runs[2].calls
    /\ runs[1].prompt_data = runs[2].prompt_data

---------------------------------------------------------------------------
(* Properties of LMStudioClient.generate_text, for SpecClient *)

\* the body holds a non-empty string at choices[0].message.content
HasContentText(body) ==
    /\ body.t = "obj"
    /\ "choices" \in DOMAIN body.v
    /\ body.v["choices"].t = "arr"
    /\ Len(body.v["choices"].v) > 0
    /\ LET first == body.v["choices"].v[1]
       IN  /\ first.t = "obj"
           /\ "message" \in DOMAIN first.v
           /\ first.v["message"].t = "obj"
           /\ "content" \in DOMAIN first.v["message"].v
           /\ first.v["message"].v["content"].t = "str"
           /\ first.v["message"].v["content"].v # ""

\* C18 as stated: generate_text never raises, and for a transport failure,
\* a body that is not JSON and a JSON body of any shape without the
\* content text it returns a string that begins with "Error:".
C18_NeverRaises ==
    \A i \in 1..Len(client_log) :
        LET call == client_log[i]
        IN  /\ call.outcome.raised = None
            /\ (call.response.kind # "json" \/ ~HasContentText(call.response.body))
                  => StartsWith(call.outcome.returned[1], "Error:")

---------------------------------------------------------------------------
(* Properties of the captioner module, for SpecCaption *)

\* C22: get_caption_for_image never raises; called while FLORENCE_MODEL or
\* FLORENCE_PROCESSOR is None it returns a string that begins with
\* "Error:", and so it does when the conversion of the image or the
\* captioning itself raises an exception.
C22_CaptionErrorString ==
    \A i \in 1..Len(caption_log) :
        caption_log[i].op = "caption" =>
            LET e      == caption_log[i]
                uninit == e.before.model = None \/ e.before.processor = None
                fails  == e.call.image = "path" \/ e.call.run.kind = "raises"
            IN  /\ e.outcome.raised = None
                /\ e.outcome.returned # None
                /\ (uninit \/ fails) => StartsWith(e.outcome.returned[1], "Error:")

BothSet(g) == g.model # None /\ g.processor # None
BothNone(g) == g.model = None /\ g.processor = None

\* the globals a call of the log left, as the next call (or the present
\* state) finds them
LeftBy(i) ==
    IF i < Len(caption_log) THEN caption_log[i + 1].before ELSE Globals

\* C25: between calls FLORENCE_MODEL and FLORENCE_PROCESSOR are both set
\* or both None; initialize_florence_model returns True exactly when it
\* leaves both set; called with both set it returns True without loading
\* and leaves them as they are; when it returns False it leaves both None,
\* and a call that finds both None tries to load; get_caption_for_image
\* leaves both globals as it found them.
C25_AllOrNothing ==
    /\ BothSet(Globals) \/ BothNone(Globals)
    /\ \A i \in 1..Len(caption_log) :
          LET e == caption_log[i]
          IN  /\ BothSet(e.before) \/ BothNone(e.before)
              /\ e.op = "initialize" =>
                    /\ e.outcome.raised = None
                    /\ (e.outcome = Returns(TRUE)) <=> BothSet(LeftBy(i))
                    /\ BothSet(e.before) =>
                          /\ e.outcome = Returns(TRUE)
                          /\ ~e.loading
                          /\ LeftBy(i) = e.before
                    /\ e.outcome = Returns(FALSE) => BothNone(LeftBy(i))
                    /\ BothNone(e.before) => e.loading
              /\ e.op = "caption" => LeftBy(i) = e.before

C25_Witness ==
    /\ Len(caption_log) = 3
    /\ caption_log[1].op = "initialize"
    /\ caption_log[1].outcome = Returns(FALSE)
    /\ caption_log[2].op = "initialize"
    /\ caption_log[2].loading
    /\ caption_log[2].outcome = Returns(TRUE)
    /\ caption_log[3].op = "initialize"
    /\ ~caption_log[3].loading
    /\ caption_log[3].outcome = Returns(TRUE)
    /\ FLORENCE_MODEL = Some(MODEL_ID)
    /\ FLORENCE_PROCESSOR = Some(MODEL_ID)

---------------------------------------------------------------------------
(* Properties of generate_cinematic_prompt, for SpecApp *)

\* the required fields of a prompt
RequiredOf(p) ==
    [ description |-> p.character.description,
      setting |-> p.environment.setting,
      shot_type |-> p.camera.shot_type,
      lighting |-> p.lighting.description,
      genre |-> p.style.genre,
      subject_focus |-> p.subject_focus,
      ambiance_atmosphere |-> p.ambiance_atmosphere ]

\* C12 as stated: whenever compose_prompt completes, every required field
\* of the returned prompt is a non-empty string, whatever the LM Studio
\* server answered to the fifteen requests.
C12_RequiredNonEmpty ==
    pc = "done" =>
        \A f \in DOMAIN RequiredOf(prompt_data[1]) :
            RequiredOf(prompt_data[1])[f] # ""

\* C19: a request whose character name is empty or only white space is
\* answered with "Please enter a character name." and the status "Character
\* name cannot be empty.", and at no point of the request is compose_prompt
\* entered or a generation call issued.
C19_EmptyNameRejected ==
    (app_args # None /\ strip(app_args[1].character_name) = "") =>
        /\ app_pc = "returned"
        /\ app_result = Some(ValidationResult)
        /\ app_result[1].prompt = "Please enter a character name."
        /\ app_result[1].status = "Character name cannot be empty."
        /\ pc = "idle"
        /\ calls = <<>>
        /\ outstanding = {}

C19_Witness ==
    /\ app_pc = "returned"
    /\ app_args[1].character_name = " \t\n"
    /\ app_result = Some(ValidationResult)
    /\ calls = <<>>

\* C20: an exception that leaves compose_prompt never leaves
\* generate_cinematic_prompt: the request ends with the four error values,
\* "Error generating prompt. Check console for details.", the structure
\* {"error": str(e)}, the placeholder image path and the status "An error
\* occurred: " followed by str(e).
C20_ExceptionCaught ==
    /\ app_pc # "crashed"
    /\ (pc = "raised" /\ app_pc = "returned") =>
          /\ raised # None
          /\ app_result # None
          /\ app_result[1].prompt = "Error generating prompt. Check console for details."
          /\ app_result[1].json = [error |-> StrOf(raised[1])]
          /\ app_result[1].image = PLACEHOLDER_IMAGE_PATH
          /\ StartsWith(app_result[1].status, "An error occurred: ")
          /\ app_result[1].status = "An error occurred: " \o StrOf(raised[1])

C20_Witness ==
    /\ pc = "raised"
    /\ raised = Some("AttributeError")
    /\ Len(calls) >= 2
    /\ app_pc = "returned"
    /\ app_result = Some(ErrorResult("AttributeError"))

\* the "Error:" strings generate_text returned in the current run
ErrorTexts == {replies[i] : i \in {j \in 1..Len(replies) : IsError(replies[j])}}

\* C21: when generate_text returned "Error:" strings to some of the calls
\* of a run and raised for none, compose_prompt returns a prompt, and the
\* request returns that prompt's final_prompt_string, which holds every one
\* of these error strings, the prompt as structure, and one of the two
\* "Prompt generated. ..." statuses: not the values of the except clause.
C21_ErrorOnlyInPrompt ==
    /\ (ErrorTexts # {} /\ pc = "run") => raised = None
    /\ (ErrorTexts # {} /\ pc = "done") => prompt_data # None
    /\ (app_pc = "returned" /\ ErrorTexts # {} /\ raised = None) =>
          /\ pc = "done"
          /\ app_result # None
          /\ app_result[1].prompt = prompt_data[1].final_prompt_string[1]
          /\ \A e \in ErrorTexts : Contains(app_result[1].prompt, e)
          /\ app_result[1].json = prompt_data[1]
          /\ StartsWith(app_result[1].status, "Prompt generated. ")
          /\ app_result[1].status =
                 (IF app_args[1].enable_comfyui_preview
                  THEN "Prompt generated. ComfyUI preview stub called (returns placeholder)."
                  ELSE "Prompt generated. ComfyUI preview disabled.")
          /\ app_result[1].prompt # "Error generating prompt. Check console for details."

C21_Witness ==
    /\ app_pc = "returned"
    /\ pc = "done"
    /\ Len(replies) = 15
    /\ IsError(replies[4])
    /\ Contains(app_result[1].prompt, "in a Error: Error connecting to LM Studio")
    /\ app_result[1].status = "Prompt generated. ComfyUI preview disabled."

\* the name differs from a key of the knowledge base, letter case aside,
\* only by white space at its ends
Padded(name) ==
    /\ strip(name) # name
    /\ \E i \in 1..Len(character_traits_kb) :
           lower(character_traits_kb[i].name) = lower(strip(name))

\* C27: a request whose name is a key of the knowledge base with white
\* space before or after it is not rejected; compose_prompt is given the
\* name as entered, its lookup finds no record, its fifteen instructions
\* carry no hint of the record, and the returned prompt has an empty
\* negative list and no " --neg " suffix.
C27_PaddedNameIsUnknown ==
    (app_args # None /\ Padded(app_args[1].character_name)) =>
        /\ app_result # Some(ValidationResult)
        /\ app_pc = "returned" => pc \in {"done", "raised"}
        /\ pc \in {"run", "done", "raised"} =>
              /\ character_name = app_args[1].character_name
              /\ known_traits = None
              /\ PureGeneration
        /\ (app_pc = "returned" /\ pc = "done") =>
              /\ Len(calls) = 15
              /\ app_result[1].json.negative_prompt_elements = <<>>
              /\ ~Contains(app_result[1].prompt, " --neg ")

C27_Witness ==
    /\ app_pc = "returned"
    /\ pc = "done"
    /\ app_args[1].character_name = " Marge Simpson"
    /\ _get_known_traits(character_traits_kb, strip(character_name)) # None
    /\ calls[1].user = "Describe the character ' Marge Simpson'."
    /\ app_result[1].json.negative_prompt_elements = <<>>

---------------------------------------------------------------------------
(* Properties of generate_prompt_string, stated for SpecAssemble *)

OptionalOf(p) ==
    [ outfit |-> p.character.outfit,
      expression |-> p.character.expression,
      mood |-> p.environment.mood,
      time_of_day |-> p.environment.time_of_day,
      angle |-> p.camera.angle,
      lens |-> p.camera.lens,
      composition_notes |-> p.camera.composition_notes,
      temperature |-> p.lighting.temperature,
      influences |-> p.style.influences,
      additional_details |-> p.style.additional_details ]

\* every optional field holds a non-empty string
AllPopulated(p) == \A f \in OptionalFields : Truthy(OptionalOf(p)[f])

\* every optional field is None
AllAbsent(p) == \A f \in OptionalFields : OptionalOf(p)[f] = None

\* the eight clauses of a prompt with every optional field populated, as
\* section 4.3 of the specification words them
FullClauses(p) ==
    << p.character.description \o ", wearing " \o p.character.outfit[1]
         \o ", with a " \o p.character.expression[1] \o " expression",
       "in a " \o p.environment.setting \o " creating a " \o p.environment.mood[1]
         \o " mood during " \o p.environment.time_of_day[1],
       "Focusing on " \o p.subject_focus \o ".",
       "The overall atmosphere is " \o p.ambiance_atmosphere \o ".",
       "Camera: " \o p.camera.shot_type \o ", " \o p.camera.angle[1]
         \o ", using a " \o p.camera.lens[1] \o " lens, with "
         \o p.camera.composition_notes[1] \o ".",
       "Lighting: " \o p.lighting.description \o ", with "
         \o p.lighting.temperature[1] \o " tones.",
       "Style: " \o p.style.genre \o ". influenced by " \o p.style.influences[1]
         \o ". " \o p.style.additional_details[1] \o ".",
       "ultra-detailed, 8k, photorealistic, cinematic composition" >>

\* the eight clauses of a prompt with every optional field absent
BareClauses(p) ==
    << p.character.description,
       "in a " \o p.environment.setting,
       "Focusing on " \o p.subject_focus \o ".",
       "The overall atmosphere is " \o p.ambiance_atmosphere \o ".",
       "Camera: " \o p.camera.shot_type \o ".",
       "Lighting: " \o p.lighting.description \o ".",
       "Style: " \o p.style.genre \o ".",
       "ultra-detailed, 8k, photorealistic, cinematic composition" >>

\* eight clauses, in order, with exactly one space between neighbours
OneSpaceApart(c) ==
    c[1] \o " " \o c[2] \o " " \o c[3] \o " " \o c[4] \o " " \o c[5] \o " "
         \o c[6] \o " " \o c[7] \o " " \o c[8]

\* the string the latest call of generate_prompt_string returned (every
\* returned string is the latest one in the state its call leads to)
LastReturn == returns[Len(returns)]

\* C6: for a prompt with every optional field populated, the string
\* generate_prompt_string returns begins with the character clause, the
\* environment clause, "Focusing on ...", "The overall atmosphere is ...",
\* "Camera: ...", "Lighting: ...", "Style: ..." and the quality suffix, in
\* this order, each separated from the next by exactly one space; only the
\* negative-prompt suffix may follow.
C6_FullClausesInOrder ==
    (Len(returns) >= 1 /\ AllPopulated(sample_prompt)) =>
        /\ StartsWith(LastReturn, OneSpaceApart(FullClauses(sample_prompt)))
        /\ \/ Len(LastReturn) = Len(OneSpaceApart(FullClauses(sample_prompt)))
           \/ Contains(LastReturn, QUALITY_SUFFIX \o " --neg ")

C6_Witness ==
    /\ AllPopulated(sample_prompt)
    /\ Len(returns) >= 1
    /\ sample_prompt.final_prompt_string = Some(returns[1])

OptionalPhrases ==
    { "wearing", "with a ", " expression", "creating a", " mood", "during",
      "using a", " lens", " with ", " tones", "influenced by" }

PunctuationArtifacts ==
    { "  ", " ,", ",,", ", ,", ",.", ", .", "..", ". .", " ." }

\* C7: for a prompt with every optional field absent, the string
\* generate_prompt_string returns consists of the bare character,
\* environment, focus, atmosphere, camera, lighting and style clauses and the
\* quality suffix (then only the negative-prompt suffix), contains none of
\* the optional-field phrases and no empty punctuation artifact.
C7_AbsentFieldsOmitted ==
    (Len(returns) >= 1 /\ AllAbsent(sample_prompt)) =>
        /\ StartsWith(LastReturn, OneSpaceApart(BareClauses(sample_prompt)))
        /\ \/ Len(LastReturn) = Len(OneSpaceApart(BareClauses(sample_prompt)))
           \/ Contains(LastReturn, QUALITY_SUFFIX \o " --neg ")
        /\ \A ph \in OptionalPhrases \cup PunctuationArtifacts :
               ~Contains(LastReturn, ph)

C7_Witness ==
    /\ AllAbsent(sample_prompt)
    /\ Len(returns) >= 1
    /\ sample_prompt.final_prompt_string = Some(returns[1])

\* the elements of a non-empty list, in order, with ", " between them
RECURSIVE CommaList(_)
CommaList(xs) ==
    IF Len(xs) = 1 THEN xs[1]
    ELSE CommaList(SubSeq(xs, 1, Len(xs) - 1)) \o ", " \o xs[Len(xs)]

\* C8: a returned string holds " --neg " iff negative_prompt_elements is
\* non-empty; then it ends with the quality suffix, " --neg " and the
\* elements joined by ", " in their order, holds "--neg" once and does not
\* end with a period; otherwise it ends with the quality suffix.
C8_NegativeSuffix ==
    Len(returns) >= 1 =>
        LET negs == sample_prompt.negative_prompt_elements
        IN  IF Len(negs) = 0
            THEN /\ ~Contains(LastReturn, "--neg")
                 /\ EndsWith(LastReturn, QUALITY_SUFFIX)
            ELSE /\ EndsWith(LastReturn, QUALITY_SUFFIX \o " --neg " \o CommaList(negs))
                 /\ Occurrences(LastReturn, "--neg") = 1
                 /\ ~EndsWith(LastReturn, ".")

C8_Witness ==
    /\ Len(sample_prompt.negative_prompt_elements) >= 2
    /\ Len(returns) >= 1
    /\ Contains(returns[1], " --neg ")

\* Scenario A of the specification: required fields and two negatives
ScenarioA ==
    SamplePrompt(ScenarioARequired, [f \in OptionalFields |-> "none"],
                 <<"cartoonish", "blurry">>)

SameInputs(p, q) ==
    [p EXCEPT !.final_prompt_string = None] = [q EXCEPT !.final_prompt_string = None]

\* C9: on Scenario A the returned string ends with "Style: sci-fi realism.
\* ultra-detailed, 8k, photorealistic, cinematic composition --neg
\* cartoonish, blurry"; and whenever influences and additional details are
\* both absent the style clause is exactly "Style: {genre}." between the
\* lighting clause's period and the quality suffix.
C9_ScenarioA ==
    Len(returns) >= 1 =>
        /\ SameInputs(sample_prompt, ScenarioA) =>
              EndsWith(LastReturn, "Style: sci-fi realism. ultra-detailed, 8k, photorealistic, cinematic composition --neg cartoonish, blurry")
        /\ (sample_prompt.style.influences = None
              /\ sample_prompt.style.additional_details = None) =>
              \E tail \in {"", " --neg " \o Join(sample_prompt.negative_prompt_elements, ", ")} :
                  EndsWith(LastReturn,
                           ". Style: " \o sample_prompt.style.genre \o ". "
                               \o QUALITY_SUFFIX \o tail)

C9_Witness ==
    /\ SameInputs(sample_prompt, ScenarioA)
    /\ Len(returns) >= 1
    /\ sample_prompt.final_prompt_string = Some(returns[1])

\* C10: successive calls on an unmodified prompt return the same string,
\* and the string does not depend on final_prompt_string: the prompt with
\* final_prompt_string unset and the prompt with another
\* final_prompt_string both yield the string the calls returned.
C10_Idempotent ==
    /\ \A i \in 1..Len(returns) : returns[i] = LastReturn
    /\ Len(returns) >= 1 =>
          \A f \in {None, Some("stale")} :
              generate_prompt_string(
                  [sample_prompt EXCEPT !.final_prompt_string = f]) = LastReturn

C10_Witness ==
    /\ Len(returns) >= 2
    /\ sample_prompt.final_prompt_string = Some(returns[2])
    /\ sample_prompt.final_prompt_string # None

\* the optional string fields compose_prompt fills from generation calls
GeneratedOptionals ==
    { "outfit", "expression", "mood", "time_of_day", "angle", "lens",
      "temperature", "influences" }

\* the generated optional fields of p that hold the empty string
EmptyOptionals(p) == {f \in GeneratedOptionals : OptionalOf(p)[f] = Some("")}

\* the text a field's clause leaves in the string when it is triggered by
\* the empty string
StrayPhrase(p) ==
    [ outfit |-> p.character.description \o ", wearing ",
      expression |-> "with a  expression",
      mood |-> "creating a  mood",
      time_of_day |-> "during ",
      angle |-> "Camera: " \o p.camera.shot_type \o ", ",
      lens |-> "using a  lens",
      temperature |-> "with  tones",
      influences |-> "influenced by " ]

\* p with every generated optional field that holds "" set to None
WithoutEmpty(p) ==
    LET opt(v) == IF v = Some("") THEN None ELSE v
    IN  [p EXCEPT !.character.outfit = opt(@),
                  !.character.expression = opt(@),
                  !.environment.mood = opt(@),
                  !.environment.time_of_day = opt(@),
                  !.camera.angle = opt(@),
                  !.camera.lens = opt(@),
                  !.lighting.temperature = opt(@),
                  !.style.influences = opt(@)]

\* C11 as stated: a generated optional field that is present but empty still
\* triggers its clause, so the returned string holds the stray phrase of
\* every such field ("wearing " with nothing after it for an empty outfit).
C11_EmptyTriggersClause ==
    Len(returns) >= 1 =>
        \A f \in EmptyOptionals(sample_prompt) :
            Contains(LastReturn, StrayPhrase(sample_prompt)[f])

\* C11 amended: a generated optional field that is present but empty is
\* treated as absent: the returned string is the one returned for the same
\* prompt with the field None, and an empty outfit leaves no "wearing" in it.
C11_EmptyIsAbsent ==
    (Len(returns) >= 1 /\ EmptyOptionals(sample_prompt) # {}) =>
        /\ LastReturn = generate_prompt_string(WithoutEmpty(sample_prompt))
        /\ sample_prompt.character.outfit = Some("") =>
              ~Contains(LastReturn, "wearing")

C11_Witness ==
    /\ Len(returns) >= 1
    /\ sample_prompt.character.outfit = Some("")
    /\ Truthy(sample_prompt.character.expression)
    /\ sample_prompt.final_prompt_string = Some(LastReturn)

\* C23: a call of generate_prompt_string leaves the five sub-records,
\* subject_focus, ambiance_atmosphere and negative_prompt_elements of the
\* prompt as they were and writes only final_prompt_string (the string it
\* returns); a prompt constructed without final_prompt_string has it None
\* as long as no call was made, and set after the first call.
C23_OnlyFinalStringWritten ==
    /\ [](returns = <<>> => sample_prompt.final_prompt_string = None)
    /\ [](returns # <<>> => sample_prompt.final_prompt_string = Some(returns[Len(returns)]))
    /\ [][ /\ sample_prompt'.character = sample_prompt.character
           /\ sample_prompt'.environment = sample_prompt.environment
           /\ sample_prompt'.camera = sample_prompt.camera
           /\ sample_prompt'.lighting = sample_prompt.lighting
           /\ sample_prompt'.style = sample_prompt.style
           /\ sample_prompt'.subject_focus = sample_prompt.subject_focus
           /\ sample_prompt'.ambiance_atmosphere = sample_prompt.ambiance_atmosphere
           /\ sample_prompt'.negative_prompt_elements = sample_prompt.negative_prompt_elements
           /\ sample_prompt' = [sample_prompt EXCEPT !.final_prompt_string =
                                                        sample_prompt'.final_prompt_string]
         ]_vars

C23_Witness ==
    /\ Len(returns) = 2
    /\ sample_prompt.final_prompt_string = Some(returns[2])
    /\ Len(sample_prompt.negative_prompt_elements) >= 2
    /\ sample_prompt.character.outfit # None
    /\ sample_prompt.camera.composition_notes # None

===========================================================================
